---- MODULE Spec2Model ----
(***************************************************************************)
(* A model of bestdiff's unified diff model and visual-alignment engine:   *)
(*   - parseUnifiedDiff        (src/shared/diff/parse.ts)                  *)
(*   - buildVisualRows         (src/mainview/components/SideBySideDiff.tsx)*)
(*   - the analytical scroll projection of the SideBySideDiff component    *)
(*                                                                         *)
(* Conventions.  JavaScript `undefined` and `null` are the values          *)
(* Undefined and Null.  Array indices, hunk indices and scroll offsets     *)
(* keep the 0-based values of the code wherever they are stored (row ids,  *)
(* running counts); TLA+ sequences are 1-based, so a[k] of the code is     *)
(* a[k + 1] here.  A rowId, a template string such as                      *)
(* `context-full-${o}-${n}`, is the tuple <<"context-full", o, n>>: the    *)
(* numbers are non-negative and separated by "-", so the formatting is     *)
(* injective and two ids are equal exactly when the tuples are.            *)
(* A text line is a sequence of one-character strings.                     *)
(***************************************************************************)
EXTENDS Integers, Sequences, FiniteSets, TLC

VARIABLES
    \* ---- parseUnifiedDiff: the loop over the input lines
    files,          \* DiffFile[] built so far
    currentFile,    \* index into files of the current file, 0 for null
    currentHunk,    \* index into the current file's hunks, 0 for null
    oldLine,        \* running old-side line counter
    newLine,        \* running new-side line counter
    consumed,       \* number of input lines consumed
    parsePc,        \* "scan" while in the loop, "done" after the final ensureStatus
    rawDiff,        \* the text handed to parseUnifiedDiff when the call is taken
                    \* as one step; empty while the lines are drawn one by one
    \* ---- SideBySideDiff: props and derived state
    file,           \* props.file
    oldFileLines,   \* props.oldFileLines (absent = empty)
    newFileLines,   \* props.newFileLines (absent = empty)
    rendered,       \* whether the component has rendered these props
    rows,           \* VisualRow[] of the last render
    connectorMeta,  \* grouped ConnectorMeta[] of the last render
    scrollTop,      \* the unified scroll position, in pixels
    layoutX,        \* the state layoutX: the measured x coordinates
    connectors,     \* the value of the `connectors` memo at the last render
    scenario,       \* what the props were drawn from: the edit script between
                    \* the two files and how each side's content was supplied
    \* ---- buildInlineDiff: a call
    oldText,        \* the first argument
    newText,        \* the second argument
    inlineDiff,     \* <<>> before the call returns, then <<the value returned>>
    \* ---- ScrollSyncController and its two panes
    leftScrollTop,  \* left.scrollTop
    rightScrollTop, \* right.scrollTop
    pendingScroll,  \* the panes with a scroll event waiting to be dispatched
    isSyncing,      \* this.isSyncing
    attached,       \* whether the listeners are on the panes
    maxDelta,       \* this.maxDelta
    \* ---- FileListStore
    staged,         \* this.state.staged
    unstaged,       \* this.state.unstaged
    listeners,      \* this.listeners, in insertion order
    notified,       \* the calls of listeners made by the last operation:
                    \* <<listener, snapshot>> each, in order
    lastCall        \* the last operation called on the store, <<>> before any

parseVars == <<files, currentFile, currentHunk, oldLine, newLine, consumed, parsePc,
              rawDiff>>
viewVars  == <<file, oldFileLines, newFileLines, rendered, rows, connectorMeta, scrollTop,
              layoutX, connectors, scenario>>
inlineVars == <<oldText, newText, inlineDiff>>
syncVars  == <<leftScrollTop, rightScrollTop, pendingScroll, isSyncing, attached, maxDelta>>
storeVars == <<staged, unstaged, listeners, notified, lastCall>>
vars      == <<parseVars, viewVars, inlineVars, syncVars, storeVars>>

Undefined == -1
Null == -2

\* null in a path field (oldPath, newPath).  A path is a sequence of
\* one-character strings; this sequence is none, and compares with every path.
NullPath == <<"null">>

ROW_HEIGHT == 24

Max(a, b) == IF a >= b THEN a ELSE b
Min(a, b) == IF a <= b THEN a ELSE b

(***************************************************************************)
(* DiffLine construction, as the parser's hunk body does it.               *)
(***************************************************************************)
AddedLine(content, n) ==
    [type |-> "added", content |-> content,
     oldLineNumber |-> Undefined, newLineNumber |-> n]

RemovedLine(content, o) ==
    [type |-> "removed", content |-> content,
     oldLineNumber |-> o, newLineNumber |-> Undefined]

ContextLine(content, o, n) ==
    [type |-> "context", content |-> content,
     oldLineNumber |-> o, newLineNumber |-> n]

(***************************************************************************)
(* buildVisualRows.  The closures pushContextRow, pushRemovedRow,          *)
(* pushAddedRow and pushGapLines mutate rows, connectors, lastOldLine and  *)
(* lastNewLine; here that state is the record acc, threaded through.       *)
(***************************************************************************)
Or(value, fallback) == IF value = 0 THEN fallback ELSE value

Coalesce(value, fallback) == IF value = Undefined THEN fallback ELSE value

\* The array indexed by the line number itself.
LineAt_Next(lines, lineNumber) ==
    IF lineNumber >= 0 /\ lineNumber < Len(lines) THEN lines[lineNumber + 1] ELSE ""

\* safeOldLines[lineNumber - 1] ?? ""
LineAt(lines, lineNumber) ==
    IF lineNumber >= 1 /\ lineNumber <= Len(lines) THEN lines[lineNumber] ELSE ""

\* Gap filling switched on whatever the contents.
hasFullFiles_Always(old, new) == TRUE

hasFullFiles(old, new) == Len(old) # 0 \/ Len(new) # 0

Spacer == [kind |-> "spacer"]

LeftCell(kind, line) == [kind |-> kind, line |-> line]

RightCell(kind, line, anchorOldLine) ==
    [kind |-> kind, line |-> line, anchorOldLine |-> anchorOldLine]

EmptyAcc == [rows |-> <<>>, connectors |-> <<>>, lastOldLine |-> 0, lastNewLine |-> 0]

\* The row and connector literals of buildVisualRows.
ContextRow(rowId, line) ==
    [rowId |-> rowId,
     left  |-> LeftCell("context", line),
     right |-> RightCell("context", line, Null)]

\* The removed row without its left cell.
RemovedRow_Blank(rowId, line) ==
    [rowId |-> rowId, left |-> Spacer, right |-> Spacer]

RemovedRow(rowId, line) ==
    [rowId |-> rowId, left |-> LeftCell("removed", line), right |-> Spacer]

AddedRow(rowId, line, lastOldLine) ==
    [rowId |-> rowId,
     left  |-> Spacer,
     right |-> RightCell("added", line, Or(lastOldLine, Null))]

\* The change row with the two sides exchanged.
ChangeRow_Swapped(rowId, removed, added) ==
    [rowId |-> rowId,
     left  |-> LeftCell("change", added),
     right |-> RightCell("change", removed, Null)]

ChangeRow(rowId, removed, added) ==
    [rowId |-> rowId,
     left  |-> LeftCell("change", removed),
     right |-> RightCell("change", added, Null)]

ChangeConnector(rowId) ==
    [type |-> "change", startRowId |-> rowId, endRowId |-> rowId]

RemovedConnector(rowId, lastNewLine) ==
    [type |-> "removed", startRowId |-> rowId, endRowId |-> rowId,
     anchorNewLine |-> Or(lastNewLine, Null)]

AddedConnector(rowId, lastOldLine) ==
    [type |-> "added", startRowId |-> rowId, endRowId |-> rowId,
     anchorOldLine |-> Or(lastOldLine, Null)]

pushContextRow(acc, rowId, content, o, n) ==
    [acc EXCEPT
        !.rows = Append(@, ContextRow(rowId, ContextLine(content, o, n))),
        !.lastOldLine = o,
        !.lastNewLine = n]

pushRemovedRow(acc, rowId, content, o) ==
    [acc EXCEPT
        !.rows = Append(@, RemovedRow(rowId, RemovedLine(content, o))),
        !.connectors = Append(@, RemovedConnector(rowId, acc.lastNewLine)),
        !.lastOldLine = o]

pushAddedRow(acc, rowId, content, n) ==
    [acc EXCEPT
        !.rows = Append(@, AddedRow(rowId, AddedLine(content, n), acc.lastOldLine)),
        !.connectors = Append(@, AddedConnector(rowId, acc.lastOldLine)),
        !.lastNewLine = n]

\* The for loop of pushGapLines, from `offset` on.
RECURSIVE GapLoop(_, _, _, _, _, _, _, _)
GapLoop(acc, old, new, oldStart, newStart, oldCount, newCount, offset) ==
    IF offset >= Max(oldCount, newCount) THEN acc
    ELSE
        LET o == oldStart + offset
            n == newStart + offset
            hasOld == offset < oldCount
            hasNew == offset < newCount
            acc2 ==
                IF hasOld /\ hasNew
                THEN pushContextRow(acc, <<"context-full", o, n>>, LineAt(old, o), o, n)
                ELSE IF hasOld
                THEN pushRemovedRow(acc, <<"removed-full", o>>, LineAt(old, o), o)
                ELSE IF hasNew
                THEN pushAddedRow(acc, <<"added-full", n>>, LineAt(new, n), n)
                ELSE acc
        IN  GapLoop(acc2, old, new, oldStart, newStart, oldCount, newCount, offset + 1)

pushGapLines(acc, old, new, oldStart, oldEnd, newStart, newEnd) ==
    IF oldEnd < oldStart /\ newEnd < newStart THEN acc
    ELSE GapLoop(acc, old, new, oldStart, newStart,
                 Max(0, oldEnd - oldStart + 1), Max(0, newEnd - newStart + 1), 0)

\* One iteration of the for loop over hunk.lines at index i (0-based): the new
\* accumulator and the index the loop goes on from.
WalkStep(acc, lines, hunkIndex, i) ==
    LET line == lines[i + 1]
        hasNext == i + 1 < Len(lines)
        next == lines[i + 2]
    IN
    IF line.type = "context" THEN
        [acc |-> [acc EXCEPT
                    !.rows = Append(@, ContextRow(<<"context", hunkIndex, i>>, line)),
                    !.lastOldLine = Coalesce(line.oldLineNumber, @),
                    !.lastNewLine = Coalesce(line.newLineNumber, @)],
         i |-> i + 1]
    ELSE IF line.type = "removed" /\ hasNext /\ next.type = "added" THEN
        [acc |-> [acc EXCEPT
                    !.rows = Append(@, ChangeRow(<<"change", hunkIndex, i>>, line, next)),
                    !.connectors = Append(@, ChangeConnector(<<"change", hunkIndex, i>>)),
                    !.lastOldLine = Coalesce(line.oldLineNumber, @),
                    !.lastNewLine = Coalesce(next.newLineNumber, @)],
         i |-> i + 2]
    ELSE IF line.type = "added" /\ hasNext /\ next.type = "removed" THEN
        [acc |-> [acc EXCEPT
                    !.rows = Append(@, ChangeRow(<<"change", hunkIndex, i>>, next, line)),
                    !.connectors = Append(@, ChangeConnector(<<"change", hunkIndex, i>>)),
                    !.lastOldLine = Coalesce(next.oldLineNumber, @),
                    !.lastNewLine = Coalesce(line.newLineNumber, @)],
         i |-> i + 2]
    ELSE IF line.type = "removed" THEN
        [acc |-> [acc EXCEPT
                    !.rows = Append(@, RemovedRow(<<"removed", hunkIndex, i>>, line)),
                    !.connectors = Append(@, RemovedConnector(<<"removed", hunkIndex, i>>,
                                                              acc.lastNewLine)),
                    !.lastOldLine = Coalesce(line.oldLineNumber, @)],
         i |-> i + 1]
    ELSE IF line.type = "added" THEN
        [acc |-> [acc EXCEPT
                    !.rows = Append(@, AddedRow(<<"added", hunkIndex, i>>, line,
                                                acc.lastOldLine)),
                    !.connectors = Append(@, AddedConnector(<<"added", hunkIndex, i>>,
                                                            acc.lastOldLine)),
                    !.lastNewLine = Coalesce(line.newLineNumber, @)],
         i |-> i + 1]
    ELSE [acc |-> acc, i |-> i + 1]

\* The loop with row ids that leave the hunk out.
RECURSIVE WalkHunk_NoHunkIndex(_, _, _, _)
WalkHunk_NoHunkIndex(acc, lines, hunkIndex, i) ==
    IF i >= Len(lines) THEN acc
    ELSE LET step == WalkStep(acc, lines, 0, i)
         IN  WalkHunk_NoHunkIndex(step.acc, lines, hunkIndex, step.i)

\* The for loop over hunk.lines, from index i (0-based) on.
RECURSIVE WalkHunk(_, _, _, _)
WalkHunk(acc, lines, hunkIndex, i) ==
    IF i >= Len(lines) THEN acc
    ELSE LET step == WalkStep(acc, lines, hunkIndex, i)
         IN  WalkHunk(step.acc, lines, hunkIndex, step.i)

\* One iteration of file.hunks.forEach: the gap before the hunk, then its lines.
HunkStep(acc, hunk, hunkIndex, old, new, nextOldLine, nextNewLine) ==
    LET gapped == IF hasFullFiles(old, new)
                  THEN pushGapLines(acc, old, new, nextOldLine, hunk.oldStart - 1,
                                    nextNewLine, hunk.newStart - 1)
                  ELSE acc
    IN  WalkHunk(gapped, hunk.lines, hunkIndex, 0)

\* file.hunks.forEach from hunk index k (0-based) on, then the trailing gap.
RECURSIVE HunksFrom(_, _, _, _, _, _, _)
HunksFrom(acc, hunks, k, old, new, nextOldLine, nextNewLine) ==
    IF k >= Len(hunks)
    THEN IF hasFullFiles(old, new)
         THEN pushGapLines(acc, old, new, nextOldLine, Len(old), nextNewLine, Len(new))
         ELSE acc
    ELSE
        LET hunk == hunks[k + 1]
        IN  HunksFrom(HunkStep(acc, hunk, k, old, new, nextOldLine, nextNewLine),
                      hunks, k + 1, old, new,
                      hunk.oldStart + hunk.oldLines, hunk.newStart + hunk.newLines)

\* rows and the raw (ungrouped) connectors, as they stand at line 588.
RawRows(f, old, new) == HunksFrom(EmptyAcc, f.hunks, 0, old, new, 1, 1)

\* rowIndexMap.get(rowId) ?? -1: Map.set keeps the last index set for an id.
RowIndexOf(rs, rowId) ==
    LET hits == {k \in 1..Len(rs) : rs[k].rowId = rowId}
    IN  IF hits = {} THEN -1 ELSE (CHOOSE k \in hits : \A j \in hits : j <= k) - 1

SameAnchor(a, b) ==
    IF a.type = "added" THEN a.anchorOldLine = b.anchorOldLine
    ELSE IF a.type = "removed" THEN a.anchorNewLine = b.anchorNewLine
    ELSE TRUE

\* Grouping that does not ask for consecutive rows.
Merges_AnyDistance(rs, last, connector) ==
    /\ connector.type = last.type
    /\ SameAnchor(connector, last)

\* Grouping that merges change connectors only.
Merges_ChangeOnly(rs, last, connector) ==
    /\ RowIndexOf(rs, connector.startRowId) = RowIndexOf(rs, last.endRowId) + 1
    /\ connector.type = last.type
    /\ connector.type = "change"

\* Whether the grouping loop extends `last` by `connector`.
Merges(rs, last, connector) ==
    /\ RowIndexOf(rs, connector.startRowId) = RowIndexOf(rs, last.endRowId) + 1
    /\ connector.type = last.type
    /\ SameAnchor(connector, last)

\* The grouping loop over connectors, from index k (1-based) on.
RECURSIVE GroupFrom(_, _, _, _)
GroupFrom(rs, rawConnectors, grouped, k) ==
    IF k > Len(rawConnectors) THEN grouped
    ELSE
        LET connector == rawConnectors[k]
            n == Len(grouped)
        IN  IF n > 0 /\ Merges(rs, grouped[n], connector)
            THEN GroupFrom(rs, rawConnectors,
                           [grouped EXCEPT ![n].endRowId = connector.endRowId], k + 1)
            ELSE GroupFrom(rs, rawConnectors, Append(grouped, connector), k + 1)

buildVisualRows(f, old, new) ==
    LET raw == RawRows(f, old, new)
    IN  [rows |-> raw.rows,
         connectors |-> GroupFrom(raw.rows, raw.connectors, <<>>, 1)]

(***************************************************************************)
(* The props handed to SideBySideDiff.  A DiffFile is what parseUnifiedDiff*)
(* returns for the output of `git diff` (gitWorkspace.ts loadDiffFiles):   *)
(* an edit script over the two files decides the hunks.  "c" is an         *)
(* unchanged line shown in a hunk, "r" a removed line, "a" an added line   *)
(* and "s" an unchanged line outside every hunk; a hunk is a maximal run   *)
(* without "s".  Hunk headers follow the unified format: a side with count *)
(* 0 names the line before the hunk (0 when there is none), e.g.           *)
(* @@ -0,0 +1,2 @@ for an added file.  buildVisualRows copies content      *)
(* strings and never reads them, so every line carries a content that      *)
(* names its origin.                                                       *)
(***************************************************************************)
MaxScriptLen == 5

MaxViewLen == 3

Ops == {"c", "r", "a", "s"}

ScriptsUpTo(n) == UNION {[1..k -> Ops] : k \in 0..n}

HunkContent ==
    <<<<"h0.0", "h0.1", "h0.2", "h0.3", "h0.4", "h0.5", "h0.6", "h0.7", "h0.8", "h0.9">>,
     <<"h1.0", "h1.1", "h1.2", "h1.3", "h1.4", "h1.5", "h1.6", "h1.7", "h1.8", "h1.9">>,
     <<"h2.0", "h2.1", "h2.2", "h2.3", "h2.4", "h2.5", "h2.6", "h2.7", "h2.8", "h2.9">>,
     <<"h3.0", "h3.1", "h3.2", "h3.3", "h3.4", "h3.5", "h3.6", "h3.7", "h3.8", "h3.9">>,
     <<"h4.0", "h4.1", "h4.2", "h4.3", "h4.4", "h4.5", "h4.6", "h4.7", "h4.8", "h4.9">>,
     <<"h5.0", "h5.1", "h5.2", "h5.3", "h5.4", "h5.5", "h5.6", "h5.7", "h5.8", "h5.9">>>>

OldContent == <<"o1", "o2", "o3", "o4", "o5", "o6", "o7", "o8", "o9", "o10", "o11", "o12">>

NewContent == <<"n1", "n2", "n3", "n4", "n5", "n6", "n7", "n8", "n9", "n10", "n11", "n12">>

OnOld(op) == op \in {"c", "r", "s"}

OnNew(op) == op \in {"c", "a", "s"}

OldLen(script) == Cardinality({k \in 1..Len(script) : OnOld(script[k])})

NewLen(script) == Cardinality({k \in 1..Len(script) : OnNew(script[k])})

\* The hunk body as parseUnifiedDiff numbers it: the running counters start at
\* the header's oldStart/newStart and advance per line type.
RECURSIVE NumberLines(_, _, _, _, _)
NumberLines(ops, hunkIndex, i, o, n) ==
    IF i >= Len(ops) THEN <<>>
    ELSE
        LET content == HunkContent[hunkIndex + 1][i + 1]
            op == ops[i + 1]
        IN  IF op = "a"
            THEN <<AddedLine(content, n)>> \o NumberLines(ops, hunkIndex, i + 1, o, n + 1)
            ELSE IF op = "r"
            THEN <<RemovedLine(content, o)>> \o NumberLines(ops, hunkIndex, i + 1, o + 1, n)
            ELSE <<ContextLine(content, o, n)>>
                    \o NumberLines(ops, hunkIndex, i + 1, o + 1, n + 1)

\* The hunk for script[from..to], with `oldBefore`/`newBefore` lines before it.
MakeHunk(script, from, to, hunkIndex, oldBefore, newBefore) ==
    LET ops == SubSeq(script, from, to)
        oldLines == OldLen(ops)
        newLines == NewLen(ops)
        oldStart == IF oldLines = 0 THEN oldBefore ELSE oldBefore + 1
        newStart == IF newLines = 0 THEN newBefore ELSE newBefore + 1
    IN  [oldStart |-> oldStart, oldLines |-> oldLines,
         newStart |-> newStart, newLines |-> newLines,
         lines |-> NumberLines(ops, hunkIndex, 0, oldStart, newStart)]

\* The hunks of script[k..], k the first position not yet looked at.
RECURSIVE ScriptHunks(_, _, _)
ScriptHunks(script, k, hunkIndex) ==
    IF k > Len(script) THEN <<>>
    ELSE IF script[k] = "s" THEN ScriptHunks(script, k + 1, hunkIndex)
    ELSE
        LET stops == {j \in k..Len(script) : script[j] = "s"}
            to == IF stops = {} THEN Len(script)
                  ELSE (CHOOSE j \in stops : \A m \in stops : j <= m) - 1
            before == SubSeq(script, 1, k - 1)
        IN  <<MakeHunk(script, k, to, hunkIndex, OldLen(before), NewLen(before))>>
                \o ScriptHunks(script, to + 1, hunkIndex + 1)

DiffFileOf(script) ==
    LET m == OldLen(script)
        n == NewLen(script)
    IN  [oldPath |-> IF m = 0 /\ n > 0 THEN NullPath ELSE <<"a", ".", "t", "x", "t">>,
         newPath |-> IF n = 0 /\ m > 0 THEN NullPath ELSE <<"a", ".", "t", "x", "t">>,
         status  |-> IF m = 0 /\ n > 0 THEN "added"
                     ELSE IF n = 0 /\ m > 0 THEN "deleted" ELSE "modified",
         hunks   |-> ScriptHunks(script, 1, 0)]

\* gitWorkspace.ts loadFileContents/splitLines: the lines of a side's file.
\* "exact": the file's lines; "newline": the file ends with a line break, so
\* split("\n") leaves a last empty string; "none": not loaded, or not passed.
ContentModes == {"exact", "newline", "none"}

FileLines(content, len, mode) ==
    IF mode = "none" THEN <<>>
    ELSE IF mode = "newline" /\ len > 0 THEN SubSeq(content, 1, len) \o <<"">>
    ELSE SubSeq(content, 1, len)

(***************************************************************************)
(* SideBySideDiff.                                                         *)
(***************************************************************************)
\* No call of buildInlineDiff.
InlineIdle ==
    /\ oldText = <<>>
    /\ newText = <<>>
    /\ inlineDiff = <<>>

\* No ScrollSyncController.
SyncIdle ==
    /\ leftScrollTop = 0
    /\ rightScrollTop = 0
    /\ pendingScroll = {}
    /\ isSyncing = FALSE
    /\ attached = FALSE
    /\ maxDelta = 0

\* No FileListStore.
StoreIdle ==
    /\ staged = <<>>
    /\ unstaged = <<>>
    /\ listeners = <<>>
    /\ notified = <<>>
    /\ lastCall = <<>>

ParseIdle ==
    /\ files = <<>>
    /\ currentFile = 0
    /\ currentHunk = 0
    /\ oldLine = 0
    /\ newLine = 0
    /\ consumed = 0
    /\ parsePc = "scan"
    /\ rawDiff = <<>>

InitProps(maxLen) ==
    /\ \E script \in ScriptsUpTo(maxLen), oldMode \in ContentModes, newMode \in ContentModes :
        /\ scenario = [script |-> script, oldMode |-> oldMode, newMode |-> newMode]
        /\ file = DiffFileOf(script)
        /\ oldFileLines = FileLines(OldContent, OldLen(script), oldMode)
        /\ newFileLines = FileLines(NewContent, NewLen(script), newMode)
    /\ rendered = FALSE
    /\ rows = <<>>
    /\ connectorMeta = <<>>
    /\ scrollTop = 0
    /\ layoutX = [fullFromX |-> 0, fullToX |-> 0, curveStartX |-> 0, curveEndX |-> 0]
    /\ connectors = <<>>

(***************************************************************************)
(* The analytical projection: the scroll-mapping tables and computeOffsets.*)
(* scrollTop is taken in whole pixels and the arithmetic is exact:         *)
(* frac * ROW_HEIGHT, with frac = max(0, st / ROW_HEIGHT - idx), is        *)
(* max(0, st - idx * ROW_HEIGHT).                                          *)
(***************************************************************************)
\* lRun pushed after the counter was advanced for the row.
RECURSIVE leftRunning_Inclusive(_, _)
leftRunning_Inclusive(rs, idx) ==
    IF idx + 1 > Len(rs) THEN 0
    ELSE (IF idx = 0 THEN 0 ELSE leftRunning_Inclusive(rs, idx - 1))
         + (IF rs[idx + 1].left.kind # "spacer" THEN 1 ELSE 0)

\* lRun[idx] / rRun[idx], idx 0-based: the loop over rows pushes the counter lc
\* (rc) before the row advances it, so the entry for row idx is the counter
\* after the rows before it.
RECURSIVE leftRunning(_, _)
leftRunning(rs, idx) ==
    IF idx = 0 THEN 0
    ELSE leftRunning(rs, idx - 1) + (IF rs[idx].left.kind # "spacer" THEN 1 ELSE 0)

RECURSIVE rightRunning(_, _)
rightRunning(rs, idx) ==
    IF idx = 0 THEN 0
    ELSE rightRunning(rs, idx - 1) + (IF rs[idx].right.kind # "spacer" THEN 1 ELSE 0)

\* computeOffsets whose fraction restarts a pixel late in each row.
computeOffsets_LateFraction(rs, st) ==
    IF Len(rs) = 0 THEN [leftScrollY |-> 0, rightScrollY |-> 0]
    ELSE
        LET idx == Max(0, Min(st \div ROW_HEIGHT, Len(rs) - 1))
            fracPx == Max(0, st - idx * ROW_HEIGHT - 1)
            lBase == leftRunning(rs, idx) * ROW_HEIGHT
            rBase == rightRunning(rs, idx) * ROW_HEIGHT
        IN  [leftScrollY  |-> lBase + (IF rs[idx + 1].left.kind # "spacer"
                                       THEN fracPx ELSE 0),
             rightScrollY |-> rBase + (IF rs[idx + 1].right.kind # "spacer"
                                       THEN fracPx ELSE 0)]

computeOffsets(rs, st) ==
    IF Len(rs) = 0 THEN [leftScrollY |-> 0, rightScrollY |-> 0]
    ELSE
        LET idx == Max(0, Min(st \div ROW_HEIGHT, Len(rs) - 1))
            fracPx == Max(0, st - idx * ROW_HEIGHT)
            lBase == leftRunning(rs, idx) * ROW_HEIGHT
            rBase == rightRunning(rs, idx) * ROW_HEIGHT
        IN  [leftScrollY  |-> lBase + (IF rs[idx + 1].left.kind # "spacer"
                                       THEN fracPx ELSE 0),
             rightScrollY |-> rBase + (IF rs[idx + 1].right.kind # "spacer"
                                       THEN fracPx ELSE 0)]

\* The y, inside its pane, of the top of row k's cell (k 1-based, the cell real):
\* the panes render only real cells, ROW_HEIGHT each, translated by -scrollY.
LeftY(rs, k, st) ==
    leftRunning(rs, k - 1) * ROW_HEIGHT - computeOffsets(rs, st).leftScrollY

RightY(rs, k, st) ==
    rightRunning(rs, k - 1) * ROW_HEIGHT - computeOffsets(rs, st).rightScrollY

\* rowIdToLeftIdx.get(rowId) / rowIdToRightIdx.get(rowId): the content index
\* of the last row with that id and a real cell on that side, else undefined.
rowIdToLeftIdx(rs, rowId) ==
    LET hits == {k \in 1..Len(rs) : rs[k].left.kind # "spacer" /\ rs[k].rowId = rowId}
    IN  IF hits = {} THEN Undefined
        ELSE leftRunning(rs, (CHOOSE k \in hits : \A j \in hits : j <= k) - 1)

rowIdToRightIdx(rs, rowId) ==
    LET hits == {k \in 1..Len(rs) : rs[k].right.kind # "spacer" /\ rs[k].rowId = rowId}
    IN  IF hits = {} THEN Undefined
        ELSE rightRunning(rs, (CHOOSE k \in hits : \A j \in hits : j <= k) - 1)

\* oldLineToLeftIdx.get(n) / newLineToRightIdx.get(n): the content index of the
\* last row whose cell on that side carries line number n, else undefined.
oldLineToLeftIdx(rs, n) ==
    LET hits == {k \in 1..Len(rs) :
                    /\ rs[k].left.kind # "spacer"
                    /\ rs[k].left.line.oldLineNumber \notin {Undefined, Null}
                    /\ rs[k].left.line.oldLineNumber = n}
    IN  IF hits = {} THEN Undefined
        ELSE leftRunning(rs, (CHOOSE k \in hits : \A j \in hits : j <= k) - 1)

newLineToRightIdx(rs, n) ==
    LET hits == {k \in 1..Len(rs) :
                    /\ rs[k].right.kind # "spacer"
                    /\ rs[k].right.line.newLineNumber \notin {Undefined, Null}
                    /\ rs[k].right.line.newLineNumber = n}
    IN  IF hits = {} THEN Undefined
        ELSE rightRunning(rs, (CHOOSE k \in hits : \A j \in hits : j <= k) - 1)

\* value == null
IsNullish(value) == value \in {Undefined, Null}

\* The initial state of layoutX.
ZeroLayout == [fullFromX |-> 0, fullToX |-> 0, curveStartX |-> 0, curveEndX |-> 0]

Point(x, y) == [x |-> x, y |-> y]

\* The anchor y that takes a missing anchor for content index 0.
AnchorY_FirstRow(anchorLine, ai, scrollY) ==
    (Max(ai, 0) + 1) * ROW_HEIGHT - scrollY

\* The y of the anchor side of an added or removed connector: toY / fromY.
AnchorY(anchorLine, ai, scrollY) ==
    IF IsNullish(anchorLine) THEN 0
    ELSE IF IsNullish(ai) THEN 0
    ELSE (ai + 1) * ROW_HEIGHT - scrollY

\* The callback of connectorMeta.map: <<>> for null, else <<the connector>>.
\* index is 0-based.
ProjectConnector(rs, meta, index, offsets, layout) ==
    LET ls == rowIdToLeftIdx(rs, meta.startRowId)
        le == rowIdToLeftIdx(rs, meta.endRowId)
        rst == rowIdToRightIdx(rs, meta.startRowId)
        re == rowIdToRightIdx(rs, meta.endRowId)
        leftScrollY == offsets.leftScrollY
        rightScrollY == offsets.rightScrollY
        band == 2
        Shape(fromTopY, fromBottomY, toTopY, toBottomY, color) ==
            [id |-> index,
             fromTop |-> Point(layout.fullFromX, fromTopY),
             fromBottom |-> Point(layout.fullFromX, fromBottomY),
             toTop |-> Point(layout.fullToX, toTopY),
             toBottom |-> Point(layout.fullToX, toBottomY),
             curveStartX |-> layout.curveStartX,
             curveEndX |-> layout.curveEndX,
             color |-> color]
    IN  IF meta.type = "change"
        THEN IF IsNullish(ls) \/ IsNullish(le) \/ IsNullish(rst) \/ IsNullish(re)
             THEN <<>>
             ELSE <<Shape(ls * ROW_HEIGHT - leftScrollY + 1,
                          (le + 1) * ROW_HEIGHT - leftScrollY - 1,
                          rst * ROW_HEIGHT - rightScrollY + 1,
                          (re + 1) * ROW_HEIGHT - rightScrollY - 1,
                          "#2563eb")>>
        ELSE IF meta.type = "removed"
        THEN IF IsNullish(ls) \/ IsNullish(le)
             THEN <<>>
             ELSE LET toY == AnchorY(meta.anchorNewLine,
                                     newLineToRightIdx(rs, meta.anchorNewLine),
                                     rightScrollY)
                  IN  <<Shape(ls * ROW_HEIGHT - leftScrollY + 1,
                              (le + 1) * ROW_HEIGHT - leftScrollY - 1,
                              toY - band,
                              toY + band,
                              "#dc2626")>>
        ELSE IF IsNullish(rst) \/ IsNullish(re)
             THEN <<>>
             ELSE LET fromY == AnchorY(meta.anchorOldLine,
                                       oldLineToLeftIdx(rs, meta.anchorOldLine),
                                       leftScrollY)
                  IN  <<Shape(fromY - band,
                              fromY + band,
                              rst * ROW_HEIGHT - rightScrollY + 1,
                              (re + 1) * ROW_HEIGHT - rightScrollY - 1,
                              "#16a34a")>>

\* connectorMeta.map(...).filter(c => c !== null), from meta k on (k 1-based).
RECURSIVE ProjectFrom(_, _, _, _, _)
ProjectFrom(rs, metas, k, offsets, layout) ==
    IF k > Len(metas) THEN <<>>
    ELSE ProjectConnector(rs, metas[k], k - 1, offsets, layout)
             \o ProjectFrom(rs, metas, k + 1, offsets, layout)

\* The projection without the guard on an unmeasured layout.
ProjectConnectors_NoGuard(rs, metas, offsets, layout) ==
    ProjectFrom(rs, metas, 1, offsets, layout)

\* The function memoised as `connectors`.
ProjectConnectors(rs, metas, offsets, layout) ==
    IF layout.fullToX = 0 THEN <<>>
    ELSE ProjectFrom(rs, metas, 1, offsets, layout)

\* The render without the "No diff to display" guard.
RenderResult_NoGuard(f, old, new) == buildVisualRows(f, old, new)

\* The render of SideBySideDiff: the "No diff to display" guard, then the memo
\* of buildVisualRows.
RenderResult(f, old, new) ==
    IF Len(f.hunks) = 0
    THEN [rows |-> <<>>, connectors |-> <<>>]
    ELSE buildVisualRows(f, old, new)

\* The dependency list of the `connectors` memo without the scroll offsets.
ConnectorDeps_NoOffsets == <<connectorMeta, layoutX, rows>>

\* The dependency list of the `connectors` memo; the four maps are themselves
\* memoised on rows.
ConnectorDeps == <<connectorMeta, computeOffsets(rows, scrollTop), layoutX, rows>>

\* What the `connectors` memo computes from the state of a render.
Projection ==
    ProjectConnectors(rows, connectorMeta, computeOffsets(rows, scrollTop), layoutX)

\* useMemo at a re-render: the cached value unless a dependency changed.
Rerender ==
    connectors' = IF ConnectorDeps' = ConnectorDeps THEN connectors ELSE Projection'

\* The first render: layoutX is still all zeros.
Render ==
    /\ ~rendered
    /\ LET r == RenderResult(file, oldFileLines, newFileLines)
       IN  /\ rows' = r.rows
           /\ connectorMeta' = r.connectors
    /\ rendered' = TRUE
    /\ UNCHANGED <<file, oldFileLines, newFileLines, scrollTop, layoutX, scenario>>
    /\ connectors' = Projection'
    /\ UNCHANGED <<parseVars, inlineVars, syncVars, storeVars>>

InitRows == ParseIdle /\ InitProps(MaxScriptLen) /\ InlineIdle /\ SyncIdle /\ StoreIdle

NextRows == Render

SpecRows == InitRows /\ [][NextRows]_vars

\* The scroll events: by a pixel or by a row, down or up.
ScrollDeltas == {1, ROW_HEIGHT, -1, -ROW_HEIGHT}

\* handleScroll: the container's scroll position becomes the state scrollTop.
\* The container's content is rows.length * ROW_HEIGHT high.
Scroll(delta) ==
    /\ rendered
    /\ Len(rows) > 0
    /\ scrollTop + delta \in 0..(Len(rows) * ROW_HEIGHT)
    /\ scrollTop' = scrollTop + delta
    /\ UNCHANGED <<file, oldFileLines, newFileLines, rendered, rows, connectorMeta,
                   layoutX, scenario>>
    /\ Rerender
    /\ UNCHANGED <<parseVars, inlineVars, syncVars, storeVars>>

InitView == ParseIdle /\ InitProps(MaxViewLen) /\ InlineIdle /\ SyncIdle /\ StoreIdle

NextView ==
    \/ Render
    \/ \E delta \in ScrollDeltas : Scroll(delta)

SpecView == InitView /\ [][NextView]_vars

(***************************************************************************)
(* The measurement of the layout and the projection of the connectors.     *)
(***************************************************************************)
\* What measure() can read from the column boxes: nothing laid out yet, a wide
\* container, a narrow one.
Layouts ==
    {ZeroLayout,
     [fullFromX |-> 0, fullToX |-> 800, curveStartX |-> 380, curveEndX |-> 420],
     [fullFromX |-> 0, fullToX |-> 400, curveStartX |-> 180, curveEndX |-> 220]}

\* measure(), run by the layout effect on mount and by the ResizeObserver on
\* each resize of the container, and the re-render that setLayoutX causes.
measure(layout) ==
    /\ rendered
    /\ Len(file.hunks) > 0
    /\ layoutX' = layout
    /\ UNCHANGED <<file, oldFileLines, newFileLines, rendered, rows, connectorMeta,
                   scrollTop, scenario>>
    /\ Rerender
    /\ UNCHANGED <<parseVars, inlineVars, syncVars, storeVars>>

MaxProjLen == 2

\* The scroll events of this specification: half a row down or up, so that the
\* container stops on row boundaries and in the middle of rows.
HalfRowDeltas == {ROW_HEIGHT \div 2, -(ROW_HEIGHT \div 2)}

InitProj == ParseIdle /\ InitProps(MaxProjLen) /\ InlineIdle /\ SyncIdle /\ StoreIdle

NextProj ==
    \/ Render
    \/ \E delta \in HalfRowDeltas : Scroll(delta)
    \/ \E layout \in Layouts : measure(layout)

SpecProj == InitProj /\ [][NextProj]_vars

(***************************************************************************)
(* parseUnifiedDiff.  The input is split into lines before the loop; one   *)
(* step of the model is one iteration of the loop over the lines.  The     *)
(* regular expressions are modelled by what they match.                    *)
(***************************************************************************)
Digits == <<"0", "1", "2", "3", "4", "5", "6", "7", "8", "9">>

IsDigit(c) == \E d \in 1..Len(Digits) : Digits[d] = c

DigitValue(c) == (CHOOSE d \in 1..Len(Digits) : Digits[d] = c) - 1

\* Number(text), text a non-empty run of decimal digits.
RECURSIVE Number(_)
Number(text) ==
    IF Len(text) = 0 THEN 0
    ELSE Number(SubSeq(text, 1, Len(text) - 1)) * 10 + DigitValue(text[Len(text)])

\* Whether `text` occurs in `line` at position pos (1-based).
At(line, pos, text) ==
    /\ pos + Len(text) - 1 <= Len(line)
    /\ SubSeq(line, pos, pos + Len(text) - 1) = text

startsWith(line, prefix) == At(line, 1, prefix)

slice(line, start) == SubSeq(line, start + 1, Len(line))

IsSpace(c) == c \in {" ", "\t"}

RECURSIVE trimStart(_)
trimStart(text) ==
    IF Len(text) > 0 /\ IsSpace(text[1]) THEN trimStart(Tail(text)) ELSE text

RECURSIVE trimEnd(_)
trimEnd(text) ==
    IF Len(text) > 0 /\ IsSpace(text[Len(text)])
    THEN trimEnd(SubSeq(text, 1, Len(text) - 1))
    ELSE text

trim(text) == trimEnd(trimStart(text))

\* path.replace(/^a\//, "") and path.replace(/^b\//, "")
StripPrefix(path, prefix) ==
    IF startsWith(path, prefix) THEN slice(path, Len(prefix)) ELSE path

\* DIFF_HEADER.exec(line): <<>> when there is no match, else the two groups.
\* Group 1 is lazy: it ends at the first " b/" that leaves group 2 non-empty.
DIFF_HEADER(line) ==
    LET prefix == <<"d", "i", "f", "f", " ", "-", "-", "g", "i", "t", " ", "a", "/">>
        rest == slice(line, Len(prefix))
        cuts == {j \in 1..(Len(rest) - 4) : At(rest, j + 1, <<" ", "b", "/">>)}
    IN  IF ~startsWith(line, prefix) \/ cuts = {} THEN <<>>
        ELSE LET j == CHOOSE c \in cuts : \A m \in cuts : c <= m
             IN  <<SubSeq(rest, 1, j), SubSeq(rest, j + 4, Len(rest))>>

\* The position after the run of digits that starts at pos.
RECURSIVE DigitsEnd(_, _)
DigitsEnd(line, pos) ==
    IF pos <= Len(line) /\ IsDigit(line[pos]) THEN DigitsEnd(line, pos + 1) ELSE pos

\* (?:,(\d+))? at pos: the position after the group, pos when it is absent.
OptionalCount(line, pos) ==
    IF At(line, pos, <<",">>) /\ DigitsEnd(line, pos + 1) > pos + 1
    THEN DigitsEnd(line, pos + 1)
    ELSE pos

\* HUNK_HEADER.exec(line): <<>> when there is no match, else the four groups,
\* an absent optional group (undefined) being the empty text.
HUNK_HEADER(line) ==
    LET p1 == 5
        e1 == DigitsEnd(line, p1)
        e2 == OptionalCount(line, e1)
        p3 == e2 + 2
        e3 == DigitsEnd(line, p3)
        e4 == OptionalCount(line, e3)
    IN  IF /\ startsWith(line, <<"@", "@", " ", "-">>)
           /\ e1 > p1
           /\ At(line, e2, <<" ", "+">>)
           /\ e3 > p3
           /\ At(line, e4, <<" ", "@", "@">>)
        THEN <<SubSeq(line, p1, e1 - 1), SubSeq(line, e1 + 1, e2 - 1),
               SubSeq(line, p3, e3 - 1), SubSeq(line, e3 + 1, e4 - 1)>>
        ELSE <<>>

\* Number(group ?? 1)
CountOf(group) == IF group = <<>> THEN 1 ELSE Number(group)

\* ensureStatus that leaves the file as it is.
ensureStatus_Idle(f) == f

ensureStatus(f) ==
    IF f.oldPath = NullPath /\ f.newPath # NullPath THEN [f EXCEPT !.status = "added"]
    ELSE IF f.newPath = NullPath /\ f.oldPath # NullPath
    THEN [f EXCEPT !.status = "deleted"]
    ELSE IF f.status = "" THEN [f EXCEPT !.status = "modified"]
    ELSE f

Skip == UNCHANGED <<files, currentFile, currentHunk, oldLine, newLine>>

\* A "diff --git" line: the previous file gets its status, a new file starts.
StartFile(diffMatch) ==
    /\ files' = Append(IF currentFile # 0
                       THEN [files EXCEPT ![currentFile] = ensureStatus(@)]
                       ELSE files,
                       [oldPath |-> diffMatch[1], newPath |-> diffMatch[2],
                        status |-> "modified", hunks |-> <<>>])
    /\ currentFile' = Len(files) + 1
    /\ currentHunk' = 0
    /\ UNCHANGED <<oldLine, newLine>>

SetStatus(status) ==
    /\ files' = [files EXCEPT ![currentFile].status = status]
    /\ UNCHANGED <<currentFile, currentHunk, oldLine, newLine>>

SetOldPath(line) ==
    /\ LET path == trim(slice(line, 4))
       IN  files' = [files EXCEPT ![currentFile].oldPath =
                        IF path = <<"/", "d", "e", "v", "/", "n", "u", "l", "l">>
                        THEN NullPath ELSE StripPrefix(path, <<"a", "/">>)]
    /\ UNCHANGED <<currentFile, currentHunk, oldLine, newLine>>

SetNewPath(line) ==
    /\ LET path == trim(slice(line, 4))
       IN  files' = [files EXCEPT ![currentFile].newPath =
                        IF path = <<"/", "d", "e", "v", "/", "n", "u", "l", "l">>
                        THEN NullPath ELSE StripPrefix(path, <<"b", "/">>)]
    /\ UNCHANGED <<currentFile, currentHunk, oldLine, newLine>>

StartHunk(line, hunkMatch) ==
    LET oldStart == Number(hunkMatch[1])
        oldLines == CountOf(hunkMatch[2])
        newStart == Number(hunkMatch[3])
        newLines == CountOf(hunkMatch[4])
    IN  /\ files' = [files EXCEPT ![currentFile].hunks =
                        Append(@, [header |-> line,
                                   oldStart |-> oldStart, oldLines |-> oldLines,
                                   newStart |-> newStart, newLines |-> newLines,
                                   lines |-> <<>>])]
        /\ currentHunk' = Len(files[currentFile].hunks) + 1
        /\ oldLine' = oldStart
        /\ newLine' = newStart
        /\ UNCHANGED currentFile

PushAdded(content) ==
    /\ files' = [files EXCEPT ![currentFile].hunks[currentHunk].lines =
                    Append(@, AddedLine(content, newLine))]
    /\ newLine' = newLine + 1
    /\ UNCHANGED <<currentFile, currentHunk, oldLine>>

PushRemoved(content) ==
    /\ files' = [files EXCEPT ![currentFile].hunks[currentHunk].lines =
                    Append(@, RemovedLine(content, oldLine))]
    /\ oldLine' = oldLine + 1
    /\ UNCHANGED <<currentFile, currentHunk, newLine>>

PushContext_OldOnly(content) ==
    /\ files' = [files EXCEPT ![currentFile].hunks[currentHunk].lines =
                    Append(@, ContextLine(content, oldLine, newLine))]
    /\ oldLine' = oldLine + 1
    /\ UNCHANGED <<currentFile, currentHunk, newLine>>

PushContext(content) ==
    /\ files' = [files EXCEPT ![currentFile].hunks[currentHunk].lines =
                    Append(@, ContextLine(content, oldLine, newLine))]
    /\ oldLine' = oldLine + 1
    /\ newLine' = newLine + 1
    /\ UNCHANGED <<currentFile, currentHunk>>

NewFileMode == <<"n", "e", "w", " ", "f", "i", "l", "e", " ", "m", "o", "d", "e">>

DeletedFileMode ==
    <<"d", "e", "l", "e", "t", "e", "d", " ", "f", "i", "l", "e", " ", "m", "o", "d", "e">>

NoNewline ==
    <<"\\", " ", "N", "o", " ", "n", "e", "w", "l", "i", "n", "e", " ",
      "a", "t", " ", "e", "n", "d", " ", "o", "f", " ", "f", "i", "l", "e">>

\* The body of the loop, for one line.
Consume(line) ==
    LET diffMatch == DIFF_HEADER(line)
        hunkMatch == HUNK_HEADER(line)
    IN  IF diffMatch # <<>> THEN StartFile(diffMatch)
        ELSE IF currentFile = 0 THEN Skip
        ELSE IF startsWith(line, NewFileMode) THEN SetStatus("added")
        ELSE IF startsWith(line, DeletedFileMode) THEN SetStatus("deleted")
        ELSE IF startsWith(line, <<"-", "-", "-", " ">>) THEN SetOldPath(line)
        ELSE IF startsWith(line, <<"+", "+", "+", " ">>) THEN SetNewPath(line)
        ELSE IF hunkMatch # <<>> THEN StartHunk(line, hunkMatch)
        ELSE IF currentHunk = 0 THEN Skip
        ELSE IF startsWith(line, NoNewline) THEN Skip
        ELSE IF startsWith(line, <<"+">>)
        THEN IF startsWith(line, <<"+", "+", "+">>) THEN Skip
             ELSE PushAdded(slice(line, 1))
        ELSE IF startsWith(line, <<"-">>)
        THEN IF startsWith(line, <<"-", "-", "-">>) THEN Skip
             ELSE PushRemoved(slice(line, 1))
        ELSE IF startsWith(line, <<" ">>) THEN PushContext(slice(line, 1))
        ELSE Skip

\* The lines the input is made of: every kind of line the loop tells apart.
\*   diff --git a/x b/y | new file mode | deleted file mode
\*   --- a/x | --- /dev/null | +++ b/y | +++ /dev/null
\*   @@ -1,2 +1,2 @@ | @@ -3 +4,0 @@ f
\*   +p | -q | " k" | \ No newline at end of file | +++x | ---x | ""
InputLines ==
    {<<"d", "i", "f", "f", " ", "-", "-", "g", "i", "t", " ", "a", "/", "x", " ", "b", "/", "y">>,
     NewFileMode,
     DeletedFileMode,
     <<"-", "-", "-", " ", "a", "/", "x">>,
     <<"-", "-", "-", " ", "/", "d", "e", "v", "/", "n", "u", "l", "l">>,
     <<"+", "+", "+", " ", "b", "/", "y">>,
     <<"+", "+", "+", " ", "/", "d", "e", "v", "/", "n", "u", "l", "l">>,
     <<"@", "@", " ", "-", "1", ",", "2", " ", "+", "1", ",", "2", " ", "@", "@">>,
     <<"@", "@", " ", "-", "3", " ", "+", "4", ",", "0", " ", "@", "@", " ", "f">>,
     <<"+", "p">>,
     <<"-", "q">>,
     <<" ", "k">>,
     NoNewline,
     <<"+", "+", "+", "x">>,
     <<"-", "-", "-", "x">>,
     <<>>}

MaxInputLines == 6

ParseLine(line) ==
    /\ parsePc = "scan"
    /\ consumed < MaxInputLines
    /\ Consume(line)
    /\ consumed' = consumed + 1
    /\ UNCHANGED <<parsePc, rawDiff>>
    /\ UNCHANGED <<viewVars, inlineVars, syncVars, storeVars>>

\* After the last line: ensureStatus for every file, and the result.
FinishParse ==
    /\ parsePc = "scan"
    /\ consumed >= 1
    /\ files' = [k \in 1..Len(files) |-> ensureStatus(files[k])]
    /\ parsePc' = "done"
    /\ UNCHANGED <<currentFile, currentHunk, oldLine, newLine, consumed, rawDiff>>
    /\ UNCHANGED <<viewVars, inlineVars, syncVars, storeVars>>

\* No diff is shown while one is parsed.
NoProps ==
    /\ scenario = [script |-> <<>>, oldMode |-> "none", newMode |-> "none"]
    /\ file = DiffFileOf(<<>>)
    /\ oldFileLines = <<>>
    /\ newFileLines = <<>>
    /\ rendered = FALSE
    /\ rows = <<>>
    /\ connectorMeta = <<>>
    /\ scrollTop = 0
    /\ layoutX = [fullFromX |-> 0, fullToX |-> 0, curveStartX |-> 0, curveEndX |-> 0]
    /\ connectors = <<>>

InitParse == ParseIdle /\ NoProps /\ InlineIdle /\ SyncIdle /\ StoreIdle

NextParse ==
    \/ \E line \in InputLines : ParseLine(line)
    \/ FinishParse

SpecParse == InitParse /\ [][NextParse]_vars

(***************************************************************************)
(* parseUnifiedDiff as a function of its argument: the same loop, folded   *)
(* over the lines of the text, the locals being the record st.             *)
(***************************************************************************)
\* Only carriage return and line feed pairs replaced.
RECURSIVE normalizeLineEndings_PairsOnly(_)
normalizeLineEndings_PairsOnly(input) ==
    IF Len(input) = 0 THEN <<>>
    ELSE IF input[1] = "\r" /\ Len(input) >= 2 /\ input[2] = "\n"
    THEN <<"\n">> \o normalizeLineEndings_PairsOnly(SubSeq(input, 3, Len(input)))
    ELSE <<input[1]>> \o normalizeLineEndings_PairsOnly(Tail(input))

\* input.replace(/\r\n?/g, "\n")
RECURSIVE normalizeLineEndings(_)
normalizeLineEndings(input) ==
    IF Len(input) = 0 THEN <<>>
    ELSE IF input[1] = "\r"
    THEN IF Len(input) >= 2 /\ input[2] = "\n"
         THEN <<"\n">> \o normalizeLineEndings(SubSeq(input, 3, Len(input)))
         ELSE <<"\n">> \o normalizeLineEndings(Tail(input))
    ELSE <<input[1]>> \o normalizeLineEndings(Tail(input))

\* text.split("\n"): the pieces between the line feeds, at least one.
RECURSIVE split(_)
split(text) ==
    LET feeds == {k \in 1..Len(text) : text[k] = "\n"}
    IN  IF feeds = {} THEN <<text>>
        ELSE LET k == CHOOSE c \in feeds : \A m \in feeds : c <= m
             IN  <<SubSeq(text, 1, k - 1)>> \o split(SubSeq(text, k + 1, Len(text)))

\* The locals before the loop, with an untitled file to take what comes before
\* the first header.
Locals_Untitled ==
    [files |-> <<[oldPath |-> NullPath, newPath |-> NullPath,
                  status |-> "modified", hunks |-> <<>>]>>,
     currentFile |-> 1, currentHunk |-> <<>>, oldLine |-> 0, newLine |-> 0]

\* The locals before the loop.  currentFile is an index into files, 0 for
\* null; currentHunk is a reference to a hunk of some file, <<file, hunk>>,
\* and <<>> for null.
Locals ==
    [files |-> <<>>, currentFile |-> 0, currentHunk |-> <<>>, oldLine |-> 0, newLine |-> 0]

DevNull == <<"/", "d", "e", "v", "/", "n", "u", "l", "l">>

\* A new file that keeps the hunk of the file before it open.
OpenFile_KeepHunk(st, diffMatch) ==
    [st EXCEPT
        !.files = Append(IF st.currentFile # 0
                         THEN [st.files EXCEPT ![st.currentFile] = ensureStatus(@)]
                         ELSE st.files,
                         [oldPath |-> diffMatch[1], newPath |-> diffMatch[2],
                          status |-> "modified", hunks |-> <<>>]),
        !.currentFile = Len(st.files) + 1]

\* A "diff --git" line: the previous file gets its status, a new file starts.
OpenFile(st, diffMatch) ==
    [st EXCEPT
        !.files = Append(IF st.currentFile # 0
                         THEN [st.files EXCEPT ![st.currentFile] = ensureStatus(@)]
                         ELSE st.files,
                         [oldPath |-> diffMatch[1], newPath |-> diffMatch[2],
                          status |-> "modified", hunks |-> <<>>]),
        !.currentFile = Len(st.files) + 1,
        !.currentHunk = <<>>]

\* The body of the loop for one line, on the locals st.
LoopBody(st, line) ==
    LET diffMatch == DIFF_HEADER(line)
        hunkMatch == HUNK_HEADER(line)
        path == trim(slice(line, 4))
        Push(diffLine) ==
            [st.files EXCEPT ![st.currentHunk[1]].hunks[st.currentHunk[2]].lines =
                Append(@, diffLine)]
    IN  IF diffMatch # <<>> THEN OpenFile(st, diffMatch)
        ELSE IF st.currentFile = 0 THEN st
        ELSE IF startsWith(line, NewFileMode)
        THEN [st EXCEPT !.files[st.currentFile].status = "added"]
        ELSE IF startsWith(line, DeletedFileMode)
        THEN [st EXCEPT !.files[st.currentFile].status = "deleted"]
        ELSE IF startsWith(line, <<"-", "-", "-", " ">>)
        THEN [st EXCEPT !.files[st.currentFile].oldPath =
                IF path = DevNull THEN NullPath ELSE StripPrefix(path, <<"a", "/">>)]
        ELSE IF startsWith(line, <<"+", "+", "+", " ">>)
        THEN [st EXCEPT !.files[st.currentFile].newPath =
                IF path = DevNull THEN NullPath ELSE StripPrefix(path, <<"b", "/">>)]
        ELSE IF hunkMatch # <<>>
        THEN [st EXCEPT
                !.files[st.currentFile].hunks =
                    Append(@, [header |-> line,
                               oldStart |-> Number(hunkMatch[1]),
                               oldLines |-> CountOf(hunkMatch[2]),
                               newStart |-> Number(hunkMatch[3]),
                               newLines |-> CountOf(hunkMatch[4]),
                               lines |-> <<>>]),
                !.currentHunk = <<st.currentFile, Len(st.files[st.currentFile].hunks) + 1>>,
                !.oldLine = Number(hunkMatch[1]),
                !.newLine = Number(hunkMatch[3])]
        ELSE IF st.currentHunk = <<>> THEN st
        ELSE IF startsWith(line, NoNewline) THEN st
        ELSE IF startsWith(line, <<"+">>)
        THEN IF startsWith(line, <<"+", "+", "+">>) THEN st
             ELSE [st EXCEPT !.files = Push(AddedLine(slice(line, 1), st.newLine)),
                             !.newLine = @ + 1]
        ELSE IF startsWith(line, <<"-">>)
        THEN IF startsWith(line, <<"-", "-", "-">>) THEN st
             ELSE [st EXCEPT !.files = Push(RemovedLine(slice(line, 1), st.oldLine)),
                             !.oldLine = @ + 1]
        ELSE IF startsWith(line, <<" ">>)
        THEN [st EXCEPT
                !.files = Push(ContextLine(slice(line, 1), st.oldLine, st.newLine)),
                !.oldLine = @ + 1,
                !.newLine = @ + 1]
        ELSE st

\* for (const line of lines), from the k-th line (1-based) on.
RECURSIVE ParseLoop(_, _, _)
ParseLoop(st, lines, k) ==
    IF k > Len(lines) THEN st ELSE ParseLoop(LoopBody(st, lines[k]), lines, k + 1)

parseUnifiedDiff(text) ==
    LET lines == split(normalizeLineEndings(text))
        st == ParseLoop(Locals, lines, 1)
    IN  [files |-> [k \in 1..Len(st.files) |-> ensureStatus(st.files[k])]]

\* The texts: lines joined by line breaks, each break a line feed, a carriage
\* return and line feed, or a bare carriage return.
\*   diff --git a/x b/y | new file mode | deleted file mode
\*   --- /dev/null | +++ /dev/null | @@ -1,2 +1,2 @@ | +p | ""
TextLines ==
    {<<"d", "i", "f", "f", " ", "-", "-", "g", "i", "t", " ", "a", "/", "x", " ", "b", "/", "y">>,
     NewFileMode,
     DeletedFileMode,
     <<"-", "-", "-", " ">> \o DevNull,
     <<"+", "+", "+", " ">> \o DevNull,
     <<"@", "@", " ", "-", "1", ",", "2", " ", "+", "1", ",", "2", " ", "@", "@">>,
     <<"+", "p">>,
     <<>>}

LineBreaks == <<<<"\r", "\n">>, <<"\r">>, <<"\n">>>>

\* How a text ends its lines: one kind of break throughout, or the three kinds
\* in turn.
EndingStyles == {"lf", "crlf", "mixed"}

LineBreak(style, i) ==
    IF style = "crlf" THEN LineBreaks[1]
    ELSE IF style = "lf" THEN LineBreaks[3]
    ELSE LineBreaks[((i - 1) % 3) + 1]

RECURSIVE Join(_, _, _)
Join(lines, style, i) ==
    IF i >= Len(lines) THEN lines[i]
    ELSE lines[i] \o LineBreak(style, i) \o Join(lines, style, i + 1)

MaxTextLines == 4

InitText ==
    /\ \E n \in 1..MaxTextLines : \E lines \in [1..n -> TextLines] :
        \E style \in EndingStyles : rawDiff = Join(lines, style, 1)
    /\ files = <<>>
    /\ currentFile = 0
    /\ currentHunk = 0
    /\ oldLine = 0
    /\ newLine = 0
    /\ consumed = 0
    /\ parsePc = "scan"
    /\ NoProps
    /\ InlineIdle
    /\ SyncIdle
    /\ StoreIdle

\* The call parseUnifiedDiff(rawDiff), as one step.
ParseText ==
    /\ parsePc = "scan"
    /\ files' = parseUnifiedDiff(rawDiff).files
    /\ parsePc' = "done"
    /\ UNCHANGED <<currentFile, currentHunk, oldLine, newLine, consumed, rawDiff>>
    /\ UNCHANGED <<viewVars, inlineVars, syncVars, storeVars>>

NextText == ParseText

SpecText == InitText /\ [][NextText]_vars

(***************************************************************************)
(* buildInlineDiff.  A text is a sequence of one-character strings (the    *)
(* code indexes UTF-16 code units); index i of the code is i + 1 here.     *)
(***************************************************************************)
\* The first while loop, from `prefix` on: the value of prefix after it.
RECURSIVE PrefixLoop(_, _, _)
PrefixLoop(old, new, prefix) ==
    IF /\ prefix < Len(old)
       /\ prefix < Len(new)
       /\ old[prefix + 1] = new[prefix + 1]
    THEN PrefixLoop(old, new, prefix + 1)
    ELSE prefix

\* The second loop without the bound that keeps it off the prefix.
RECURSIVE SuffixLoop_Unbounded(_, _, _, _)
SuffixLoop_Unbounded(old, new, prefix, suffix) ==
    IF /\ suffix < Len(old)
       /\ suffix < Len(new)
       /\ old[Len(old) - suffix] = new[Len(new) - suffix]
    THEN SuffixLoop_Unbounded(old, new, prefix, suffix + 1)
    ELSE suffix

\* The second while loop, from `suffix` on: the value of suffix after it.
RECURSIVE SuffixLoop(_, _, _, _)
SuffixLoop(old, new, prefix, suffix) ==
    IF /\ suffix < Len(old) - prefix
       /\ suffix < Len(new) - prefix
       /\ old[Len(old) - suffix] = new[Len(new) - suffix]
    THEN SuffixLoop(old, new, prefix, suffix + 1)
    ELSE suffix

\* slice that starts at the beginning of the text whatever `from` is.
Slice_FromStart(text, from, to) == IF to <= from THEN <<>> ELSE SubSeq(text, 1, to)

\* text.slice(from, to), 0 <= from, to <= text.length
Slice(text, from, to) == IF to <= from THEN <<>> ELSE SubSeq(text, from + 1, to)

buildInlineDiff(old, new) ==
    IF Len(old) = 0 /\ Len(new) = 0
    THEN [old  |-> [before |-> <<>>, changed |-> <<>>, after |-> <<>>],
          next |-> [before |-> <<>>, changed |-> <<>>, after |-> <<>>]]
    ELSE
        LET prefix == PrefixLoop(old, new, 0)
            suffix == SuffixLoop(old, new, prefix, 0)
        IN  [old  |-> [before  |-> Slice(old, 0, prefix),
                       changed |-> Slice(old, prefix, Len(old) - suffix),
                       after   |-> Slice(old, Len(old) - suffix, Len(old))],
             next |-> [before  |-> Slice(new, 0, prefix),
                       changed |-> Slice(new, prefix, Len(new) - suffix),
                       after   |-> Slice(new, Len(new) - suffix, Len(new))]]

MaxInlineLen == 3

Letters == {"a", "b"}

TextsUpTo(n) == UNION {[1..k -> Letters] : k \in 0..n}

InitInline ==
    /\ oldText \in TextsUpTo(MaxInlineLen)
    /\ newText \in TextsUpTo(MaxInlineLen)
    /\ inlineDiff = <<>>
    /\ ParseIdle
    /\ NoProps
    /\ SyncIdle
    /\ StoreIdle

\* The call buildInlineDiff(oldText, newText).
BuildInline ==
    /\ inlineDiff = <<>>
    /\ inlineDiff' = <<buildInlineDiff(oldText, newText)>>
    /\ UNCHANGED <<oldText, newText>>
    /\ UNCHANGED <<parseVars, viewVars, syncVars, storeVars>>

NextInline == BuildInline

SpecInline == InitInline /\ [][NextInline]_vars

(***************************************************************************)
(* ScrollSyncController.  A pane is "left" or "right"; the browser queues  *)
(* a scroll event on a pane whenever its scrollTop changes, by the user or *)
(* by a script, and dispatches the queued events one at a time.            *)
(***************************************************************************)
Panes == {"left", "right"}

Other(pane) == IF pane = "left" THEN "right" ELSE "left"

ScrollTopOf(pane) == IF pane = "left" THEN leftScrollTop ELSE rightScrollTop

Abs(x) == IF x < 0 THEN -x ELSE x

DefaultMaxDelta == 2

\* options.maxDelta ?? 2
MaxDeltaOf(option) == IF IsNullish(option) THEN DefaultMaxDelta ELSE option

\* sync with a strict comparison against maxDelta.
sync_Strict(syncing, max, sourceTop, targetTop) ==
    IF syncing THEN targetTop
    ELSE IF Abs(targetTop - sourceTop) < max THEN targetTop
    ELSE sourceTop

\* sync that writes a position one pixel past the source's.
sync_Overshoot(syncing, max, sourceTop, targetTop) ==
    IF syncing THEN targetTop
    ELSE IF Abs(targetTop - sourceTop) <= max THEN targetTop
    ELSE sourceTop + 1

\* sync(source, target): target.scrollTop when it returns.  isSyncing is set
\* and cleared inside the call.
sync(syncing, max, sourceTop, targetTop) ==
    IF syncing THEN targetTop
    ELSE IF Abs(targetTop - sourceTop) <= max THEN targetTop
    ELSE sourceTop

MaxScroll == 6

\* The maxDelta option: absent, 0 as in the first test, 5 as in the second.
MaxDeltaOptions == {Undefined, 0, 5}

\* new ScrollSyncController(left, right, options), both panes at the top.
InitSync ==
    /\ leftScrollTop = 0
    /\ rightScrollTop = 0
    /\ pendingScroll = {}
    /\ isSyncing = FALSE
    /\ attached = FALSE
    /\ \E option \in MaxDeltaOptions : maxDelta = MaxDeltaOf(option)
    /\ ParseIdle
    /\ NoProps
    /\ InlineIdle
    /\ StoreIdle

attach ==
    /\ ~attached
    /\ attached' = TRUE
    /\ UNCHANGED <<leftScrollTop, rightScrollTop, pendingScroll, isSyncing, maxDelta>>
    /\ UNCHANGED <<parseVars, viewVars, inlineVars, storeVars>>

detach ==
    /\ attached
    /\ attached' = FALSE
    /\ UNCHANGED <<leftScrollTop, rightScrollTop, pendingScroll, isSyncing, maxDelta>>
    /\ UNCHANGED <<parseVars, viewVars, inlineVars, storeVars>>

\* The user scrolls a pane to position: the browser moves it and queues its
\* scroll event.
UserScroll(pane, position) ==
    /\ position # ScrollTopOf(pane)
    /\ leftScrollTop' = IF pane = "left" THEN position ELSE leftScrollTop
    /\ rightScrollTop' = IF pane = "right" THEN position ELSE rightScrollTop
    /\ pendingScroll' = pendingScroll \cup {pane}
    /\ UNCHANGED <<isSyncing, attached, maxDelta>>
    /\ UNCHANGED <<parseVars, viewVars, inlineVars, storeVars>>

\* The browser dispatches the scroll event queued on a pane: onLeftScroll or
\* onRightScroll runs if the listeners are attached.  A write that moves the
\* target queues a scroll event on the target.
DispatchScroll(pane) ==
    /\ pane \in pendingScroll
    /\ LET sourceTop == ScrollTopOf(pane)
           targetTop == ScrollTopOf(Other(pane))
           written == IF attached
                      THEN sync(isSyncing, maxDelta, sourceTop, targetTop)
                      ELSE targetTop
       IN  /\ leftScrollTop' = IF pane = "left" THEN leftScrollTop ELSE written
           /\ rightScrollTop' = IF pane = "right" THEN rightScrollTop ELSE written
           /\ pendingScroll' = (pendingScroll \ {pane})
                                  \cup (IF written # targetTop THEN {Other(pane)} ELSE {})
    /\ UNCHANGED <<isSyncing, attached, maxDelta>>
    /\ UNCHANGED <<parseVars, viewVars, inlineVars, storeVars>>

NextSync ==
    \/ attach
    \/ detach
    \/ \E pane \in Panes, position \in 0..MaxScroll : UserScroll(pane, position)
    \/ \E pane \in Panes : DispatchScroll(pane)

SpecSync == InitSync /\ [][NextSync]_vars

(***************************************************************************)
(* FileListStore.  A DiffFile is told apart by its two paths; a path is a  *)
(* sequence of characters, as in the parser.                               *)
(***************************************************************************)
StorePaths == {<<"a">>, <<"b">>}

\* makeFile-like files, a renamed file and an added one.
StoreFiles ==
    {[oldPath |-> <<"a">>, newPath |-> <<"a">>],
     [oldPath |-> <<"b">>, newPath |-> <<"b">>],
     [oldPath |-> <<"a">>, newPath |-> <<"b">>],
     [oldPath |-> NullPath, newPath |-> <<"a">>]}

MaxFiles == 2

FileLists == UNION {[1..k -> StoreFiles] : k \in 0..MaxFiles}

Listeners == {"l1", "l2"}

\* cloneState / getState: the two lists, copied.
cloneState(state) == [staged |-> state.staged, unstaged |-> state.unstaged]

\* source.findIndex(...): 0-based, -1 when no file matches.
findIndex(list, filePath) ==
    LET hits == {k \in 1..Len(list) :
                    list[k].newPath = filePath \/ list[k].oldPath = filePath}
    IN  IF hits = {} THEN -1 ELSE (CHOOSE k \in hits : \A j \in hits : k <= j) - 1

\* list.splice(index, 1): the list left behind (index 0-based).
splice(list, index) ==
    [k \in 1..(Len(list) - 1) |-> IF k <= index THEN list[k] ELSE list[k + 1]]

\* targetList.some(...)
some(list, f) ==
    \E k \in 1..Len(list) : list[k].newPath = f.newPath /\ list[k].oldPath = f.oldPath

\* emit(): every listener called with the snapshot, in insertion order.
emit(state, ls) == [k \in 1..Len(ls) |-> <<ls[k], cloneState(state)>>]

\* moveFile(filePath, target): the state it leaves and whether it emits.
moveFileResult(state, filePath, target) ==
    LET sourceGroup == IF target = "staged" THEN "unstaged" ELSE "staged"
        index == findIndex(state[sourceGroup], filePath)
    IN  IF index = -1 THEN [state |-> state, emitted |-> FALSE]
        ELSE LET f == state[sourceGroup][index + 1]
             IN  [state |-> [state EXCEPT
                                ![sourceGroup] = splice(@, index),
                                ![target] = IF some(state[target], f) THEN @
                                            ELSE Append(@, f)],
                  emitted |-> TRUE]

StoreState == [staged |-> staged, unstaged |-> unstaged]

\* new FileListStore(initial)
InitStore ==
    /\ staged \in FileLists
    /\ unstaged \in FileLists
    /\ listeners = <<>>
    /\ notified = <<>>
    /\ lastCall = <<>>
    /\ ParseIdle
    /\ NoProps
    /\ InlineIdle
    /\ SyncIdle

setFiles(fileList) ==
    /\ unstaged' = fileList
    /\ staged' = <<>>
    /\ notified' = emit([staged |-> <<>>, unstaged |-> fileList], listeners)
    /\ lastCall' = [op |-> "setFiles", files |-> fileList]
    /\ UNCHANGED listeners
    /\ UNCHANGED <<parseVars, viewVars, inlineVars, syncVars>>

moveFile(filePath, target) ==
    /\ LET r == moveFileResult(StoreState, filePath, target)
       IN  /\ staged' = r.state.staged
           /\ unstaged' = r.state.unstaged
           /\ notified' = IF r.emitted THEN emit(r.state, listeners) ELSE <<>>
    /\ lastCall' = [op |-> "moveFile", filePath |-> filePath, target |-> target]
    /\ UNCHANGED listeners
    /\ UNCHANGED <<parseVars, viewVars, inlineVars, syncVars>>

\* onChange(listener): Set.add keeps a listener that is already there.
onChange(listener) ==
    /\ listeners' = IF \E k \in 1..Len(listeners) : listeners[k] = listener
                    THEN listeners
                    ELSE Append(listeners, listener)
    /\ notified' = <<>>
    /\ lastCall' = [op |-> "onChange", listener |-> listener]
    /\ UNCHANGED <<staged, unstaged>>
    /\ UNCHANGED <<parseVars, viewVars, inlineVars, syncVars>>

\* The function onChange returned, called: Set.delete.
unsubscribe(listener) ==
    /\ \E k \in 1..Len(listeners) : listeners[k] = listener
    /\ listeners' = SelectSeq(listeners, LAMBDA l : l # listener)
    /\ notified' = <<>>
    /\ lastCall' = [op |-> "unsubscribe", listener |-> listener]
    /\ UNCHANGED <<staged, unstaged>>
    /\ UNCHANGED <<parseVars, viewVars, inlineVars, syncVars>>

NextStore ==
    \/ \E fileList \in FileLists : setFiles(fileList)
    \/ \E filePath \in StorePaths, target \in {"staged", "unstaged"} : moveFile(filePath, target)
    \/ \E listener \in Listeners : onChange(listener)
    \/ \E listener \in Listeners : unsubscribe(listener)

SpecStore == InitStore /\ [][NextStore]_vars

(***************************************************************************)
(* Vocabulary of the properties.                                           *)
(***************************************************************************)
LeftReal(rs) == {k \in 1..Len(rs) : rs[k].left.kind # "spacer"}

RightReal(rs) == {k \in 1..Len(rs) : rs[k].right.kind # "spacer"}

IsAddedFile == OldLen(scenario.script) = 0 /\ NewLen(scenario.script) > 0

IsDeletedFile == NewLen(scenario.script) = 0 /\ OldLen(scenario.script) > 0

\* Both full content arrays are given, line for line.
BothExact == scenario.oldMode = "exact" /\ scenario.newMode = "exact"

HasHunks == Len(file.hunks) > 0

\* C2: for a well-formed diff between an old file of M lines and a new file of
\* N lines (added and deleted files included), with both full content arrays
\* given, exactly M rows have a non-spacer left cell and exactly N rows a
\* non-spacer right cell.
C2_Completeness ==
    (rendered /\ HasHunks /\ BothExact) =>
        /\ Cardinality(LeftReal(rows)) = OldLen(scenario.script)
        /\ Cardinality(RightReal(rows)) = NewLen(scenario.script)

BothReal(rs) == LeftReal(rs) \cap RightReal(rs)

\* C1: at every unified scroll position, every row whose two cells are both
\* non-spacer has the same on-screen y in the left pane and in the right pane.
C1_AlignedEverywhere ==
    rendered => \A k \in BothReal(rows) : LeftY(rows, k, scrollTop) = RightY(rows, k, scrollTop)

\* The raw connector list of the last render, before grouping.
RawConnectors == RawRows(file, oldFileLines, newFileLines).connectors

HunkLines(h) == file.hunks[h + 1].lines

HunkIndices == 0..(Len(file.hunks) - 1)

Carries(row, line) ==
    \/ row.left.kind # "spacer" /\ row.left.line = line
    \/ row.right.kind # "spacer" /\ row.right.line = line

\* Lines i and i + 1 (0-based) of a hunk are a removed and an added line, in
\* either order.
Opposite(lines, i) ==
    /\ i + 1 < Len(lines)
    /\ {lines[i + 1].type, lines[i + 2].type} = {"removed", "added"}

\* Pairing the lines of a hunk greedily from its start: line i opens a pair
\* when it and line i + 1 are opposite and line i does not close the pair
\* opened by line i - 1.
RECURSIVE OpensPair(_, _)
OpensPair(lines, i) ==
    /\ Opposite(lines, i)
    /\ (i = 0 \/ ~OpensPair(lines, i - 1))

\* Lines i and i + 1 of hunk h are shown by exactly one row, a change row with
\* the removed line on the left and the added line on the right, with exactly
\* one raw connector, of kind change, from that row to that row.
OneChangeRow(h, i) ==
    LET a == HunkLines(h)[i + 1]
        b == HunkLines(h)[i + 2]
        removed == IF a.type = "removed" THEN a ELSE b
        added == IF a.type = "removed" THEN b ELSE a
        hit == {k \in 1..Len(rows) :
                    /\ rows[k].left = LeftCell("change", removed)
                    /\ rows[k].right.kind = "change"
                    /\ rows[k].right.line = added}
        carrying == {k \in 1..Len(rows) :
                        Carries(rows[k], removed) \/ Carries(rows[k], added)}
    IN  /\ Cardinality(hit) = 1
        /\ carrying = hit
        /\ \A k \in hit :
            LET touching == {c \in 1..Len(RawConnectors) :
                                \/ RawConnectors[c].startRowId = rows[k].rowId
                                \/ RawConnectors[c].endRowId = rows[k].rowId}
            IN  /\ Cardinality(touching) = 1
                /\ \A c \in touching :
                    RawConnectors[c] = [type |-> "change",
                                        startRowId |-> rows[k].rowId,
                                        endRowId |-> rows[k].rowId]

\* C3 as stated: every removed line immediately followed by an added line, or
\* added line immediately followed by a removed line, is shown by one change
\* row with one change connector, and both lines are consumed by that row.
C3_EveryAdjacentPair ==
    rendered =>
        \A h \in HunkIndices : \A i \in 0..(Len(HunkLines(h)) - 1) :
            Opposite(HunkLines(h), i) => OneChangeRow(h, i)

\* C3 amended: the same for every such pair whose first line is not already
\* the second line of the pair before it, the lines of a hunk being paired
\* from its start.
C3_GreedyPairs ==
    rendered =>
        \A h \in HunkIndices : \A i \in 0..(Len(HunkLines(h)) - 1) :
            OpensPair(HunkLines(h), i) => OneChangeRow(h, i)

\* A render with a removed-then-added pair and an added-then-removed pair.
C3_Witness ==
    /\ rendered
    /\ \E h \in HunkIndices : \E i \in 0..(Len(HunkLines(h)) - 1) :
        OpensPair(HunkLines(h), i) /\ HunkLines(h)[i + 1].type = "removed"
    /\ \E h \in HunkIndices : \E i \in 0..(Len(HunkLines(h)) - 1) :
        OpensPair(HunkLines(h), i) /\ HunkLines(h)[i + 1].type = "added"

\* The index (1-based) of the row with this id.
RowAt(rowId) == CHOOSE k \in 1..Len(rows) : rows[k].rowId = rowId

IsAddedRow(row) == row.left.kind = "spacer" /\ row.right.kind = "added"

AnchorOf(connector) ==
    IF connector.type = "added" THEN connector.anchorOldLine
    ELSE IF connector.type = "removed" THEN connector.anchorNewLine
    ELSE Null

\* Rows p..q are a maximal run of consecutive added rows with one anchor.
AddedRun(p, q) ==
    /\ p <= q
    /\ \A k \in p..q :
        /\ IsAddedRow(rows[k])
        /\ rows[k].right.anchorOldLine = rows[p].right.anchorOldLine
    /\ \/ p = 1
       \/ ~IsAddedRow(rows[p - 1])
       \/ rows[p - 1].right.anchorOldLine # rows[p].right.anchorOldLine
    /\ \/ q = Len(rows)
       \/ ~IsAddedRow(rows[q + 1])
       \/ rows[q + 1].right.anchorOldLine # rows[p].right.anchorOldLine

\* C4: consecutive added rows with the same anchor have exactly one connector,
\* from the first to the last of them; and no two consecutive connectors of
\* the result have the same kind, adjacent row ranges and equal anchors.
C4_Grouped ==
    rendered =>
        /\ \A p \in 1..Len(rows) : \A q \in p..Len(rows) :
            AddedRun(p, q) =>
                LET inside == {c \in 1..Len(connectorMeta) :
                                \/ RowAt(connectorMeta[c].startRowId) \in p..q
                                \/ RowAt(connectorMeta[c].endRowId) \in p..q}
                IN  /\ Cardinality(inside) = 1
                    /\ \A c \in inside :
                        /\ connectorMeta[c].type = "added"
                        /\ connectorMeta[c].startRowId = rows[p].rowId
                        /\ connectorMeta[c].endRowId = rows[q].rowId
        /\ \A j \in 1..(Len(connectorMeta) - 1) :
            ~ /\ connectorMeta[j].type = connectorMeta[j + 1].type
              /\ RowAt(connectorMeta[j + 1].startRowId)
                    = RowAt(connectorMeta[j].endRowId) + 1
              /\ AnchorOf(connectorMeta[j]) = AnchorOf(connectorMeta[j + 1])

\* A render with three consecutive added rows of one anchor, and with two
\* adjacent connectors of different kinds.
C4_Witness ==
    /\ rendered
    /\ \E p \in 1..Len(rows) : \E q \in p..Len(rows) : AddedRun(p, q) /\ q >= p + 2
    /\ \E j \in 1..(Len(connectorMeta) - 1) :
        RowAt(connectorMeta[j + 1].startRowId) = RowAt(connectorMeta[j].endRowId) + 1

\* C5: no row has a spacer on both sides.
C5_NoSpacerSpacer ==
    rendered =>
        \A k \in 1..Len(rows) :
            ~(rows[k].left.kind = "spacer" /\ rows[k].right.kind = "spacer")

IsGapRow(row) == row.rowId[1] \in {"context-full", "removed-full", "added-full"}

\* A render with a left spacer, a right spacer and a row from gap filling.
C5_Witness ==
    /\ rendered
    /\ \E k \in 1..Len(rows) : rows[k].left.kind = "spacer"
    /\ \E k \in 1..Len(rows) : rows[k].right.kind = "spacer"
    /\ \E k \in 1..Len(rows) : IsGapRow(rows[k])

\* C6: with full file contents present, every row that gap filling emits is a
\* context row with real content on both sides, and gap filling emits no
\* connector.
C6_GapRowsAreContext ==
    (rendered /\ (Len(oldFileLines) > 0 \/ Len(newFileLines) > 0)) =>
        /\ \A k \in 1..Len(rows) :
            IsGapRow(rows[k]) =>
                rows[k].left.kind = "context" /\ rows[k].right.kind = "context"
        /\ \A c \in 1..Len(RawConnectors) :
            ~IsGapRow(rows[RowAt(RawConnectors[c].startRowId)])

\* C7: when the first hunk starts at old line s and new line s, s > 1, and the
\* old file's lines 1..s-1 are given, rows 1..s-1 are context rows for lines
\* 1..s-1 in order, with oldLineNumber = newLineNumber = k and the content of
\* old line k, and the next row is the first row of the hunk.
C7_Precondition ==
    /\ rendered
    /\ HasHunks
    /\ file.hunks[1].oldStart > 1
    /\ file.hunks[1].oldStart = file.hunks[1].newStart
    /\ Len(oldFileLines) >= file.hunks[1].oldStart - 1

C7_LeadingGap ==
    C7_Precondition =>
        LET s == file.hunks[1].oldStart
        IN  /\ Len(rows) >= s - 1
            /\ \A k \in 1..(s - 1) :
                LET line == ContextLine(oldFileLines[k], k, k)
                IN  /\ rows[k].left = LeftCell("context", line)
                    /\ rows[k].right = RightCell("context", line, Null)
            /\ Len(file.hunks[1].lines) > 0 =>
                /\ Len(rows) >= s
                /\ ~IsGapRow(rows[s])
                /\ rows[s].rowId[2] = 0
                /\ rows[s].rowId[3] = 0

\* A render whose first hunk starts at line 3 on both sides.
C7_Witness == C7_Precondition /\ file.hunks[1].oldStart >= 3

\* C8: a DiffFile with zero hunks produces no rows and no connectors, whether
\* or not full file contents are supplied.
C8_NoHunksNoRows ==
    (rendered /\ ~HasHunks) => (rows = <<>> /\ connectorMeta = <<>>)

\* A render of a file without hunks, with both contents supplied.
C8_Witness ==
    /\ rendered
    /\ ~HasHunks
    /\ Len(oldFileLines) > 0
    /\ Len(newFileLines) > 0

RECURSIVE LinesOfHunks(_, _)
LinesOfHunks(hunks, k) ==
    IF k > Len(hunks) THEN <<>> ELSE hunks[k].lines \o LinesOfHunks(hunks, k + 1)

OnOldSide(line) == line.type \in {"removed", "context"}

OnNewSide(line) == line.type \in {"added", "context"}

HasLeft(row) == row.left.kind # "spacer"

HasRight(row) == row.right.kind # "spacer"

LeftLines(rs) ==
    LET real == SelectSeq(rs, HasLeft)
    IN  [k \in 1..Len(real) |-> real[k].left.line]

RightLines(rs) ==
    LET real == SelectSeq(rs, HasRight)
    IN  [k \in 1..Len(real) |-> real[k].right.line]

NoContents == Len(oldFileLines) = 0 /\ Len(newFileLines) = 0

\* C9: without file contents the rows carry the hunk lines and nothing else:
\* the left cells are the removed and context lines in hunk order, the right
\* cells the added and context lines in hunk order, a context line is on both
\* cells of one row, and every row carries a line.
C9_HunkOnly ==
    (rendered /\ NoContents) =>
        /\ LeftLines(rows) = SelectSeq(LinesOfHunks(file.hunks, 1), OnOldSide)
        /\ RightLines(rows) = SelectSeq(LinesOfHunks(file.hunks, 1), OnNewSide)
        /\ \A k \in 1..Len(rows) :
            /\ HasLeft(rows[k]) \/ HasRight(rows[k])
            /\ (rows[k].left.kind = "context") <=> (rows[k].right.kind = "context")
            /\ rows[k].left.kind = "context" => rows[k].left.line = rows[k].right.line

\* A render without contents of two hunks, the second starting past line 2,
\* with a context row and a change row.
C9_Witness ==
    /\ rendered
    /\ NoContents
    /\ Len(file.hunks) >= 2
    /\ file.hunks[2].oldStart > 2
    /\ \E k \in 1..Len(rows) : rows[k].left.kind = "context"
    /\ \E k \in 1..Len(rows) : rows[k].left.kind = "change"

ParsedLines == {<<f, h, i>> \in (1..Len(files)) \X (1..MaxInputLines) \X (1..MaxInputLines) :
                    /\ h <= Len(files[f].hunks)
                    /\ i <= Len(files[f].hunks[h].lines)}

\* How many of the first i lines exist on the old side / on the new side.
OldRank(lines, i) == Cardinality({j \in 1..i : OnOldSide(lines[j])})

NewRank(lines, i) == Cardinality({j \in 1..i : OnNewSide(lines[j])})

\* C10: of the lines parseUnifiedDiff has produced, an added line has no
\* oldLineNumber, a removed line no newLineNumber, a context line has both;
\* within its hunk the k-th line on the old side has oldLineNumber
\* oldStart + k - 1 and the k-th line on the new side has newLineNumber
\* newStart + k - 1.
C10_LineNumbers ==
    \A t \in ParsedLines :
        LET hunk == files[t[1]].hunks[t[2]]
            line == hunk.lines[t[3]]
        IN  /\ line.type \in {"added", "removed", "context"}
            /\ line.type = "added" => line.oldLineNumber = Undefined
            /\ line.type = "removed" => line.newLineNumber = Undefined
            /\ OnOldSide(line) =>
                line.oldLineNumber = hunk.oldStart + OldRank(hunk.lines, t[3]) - 1
            /\ OnNewSide(line) =>
                line.newLineNumber = hunk.newStart + NewRank(hunk.lines, t[3]) - 1

\* A finished parse of a hunk that starts at old line 3 and new line 4 and
\* has a context line followed by an added and a removed line.
C10_Witness ==
    /\ parsePc = "done"
    /\ \E t \in ParsedLines :
        LET hunk == files[t[1]].hunks[t[2]]
        IN  /\ hunk.oldStart = 3
            /\ hunk.newStart = 4
            /\ Len(hunk.lines) = 3
            /\ hunk.lines[1].type = "context"
            /\ {hunk.lines[2].type, hunk.lines[3].type} = {"added", "removed"}

Parsed == parsePc = "done"

\* The lines of the text, as the claims read it: the pieces between line
\* breaks, a break being CR LF, a bare CR or a bare LF.
RECURSIVE TextLinesOf(_)
TextLinesOf(text) ==
    LET breaks == {k \in 1..Len(text) : text[k] \in {"\r", "\n"}}
    IN  IF breaks = {} THEN <<text>>
        ELSE LET k == CHOOSE c \in breaks : \A m \in breaks : c <= m
                 skip == IF text[k] = "\r" /\ k < Len(text) /\ text[k + 1] = "\n"
                         THEN 2 ELSE 1
             IN  <<SubSeq(text, 1, k - 1)>>
                    \o TextLinesOf(SubSeq(text, k + skip, Len(text)))

IsFileHeader(line) == DIFF_HEADER(line) # <<>>

\* The positions in the input of the diff --git header lines, in order.
HeaderPositions(input) == {k \in 1..Len(input) : IsFileHeader(input[k])}

\* The position of the f-th header line.
HeaderAt(input, f) ==
    LET headers == HeaderPositions(input)
    IN  CHOOSE k \in headers : Cardinality({j \in headers : j <= k}) = f

\* The positions of the file section of the f-th header: after it, up to the
\* next header or the end of the input.
SectionOf(input, f) ==
    LET headers == HeaderPositions(input)
        start == HeaderAt(input, f)
    IN  {k \in 1..Len(input) : k > start /\ \A j \in headers : j > start => k < j}

\* The status a mode line names.
ModeOf(line) == IF startsWith(line, NewFileMode) THEN "added" ELSE "deleted"

IsModeLine(line) == startsWith(line, NewFileMode) \/ startsWith(line, DeletedFileMode)

\* The positions of the mode lines of the f-th file section.
ModeLines(input, f) == {k \in SectionOf(input, f) : IsModeLine(input[k])}

\* C11: of a returned file, status is added when oldPath is null and newPath
\* is not, deleted when newPath is null and oldPath is not; otherwise it is
\* modified when the file section has no mode line, and else what the last
\* mode line of the section names.
C11_Status ==
    Parsed =>
        LET input == TextLinesOf(rawDiff)
        IN  \A f \in 1..Len(files) :
                LET marks == ModeLines(input, f)
                IN  files[f].status =
                        IF files[f].oldPath = NullPath /\ files[f].newPath # NullPath
                        THEN "added"
                        ELSE IF files[f].newPath = NullPath /\ files[f].oldPath # NullPath
                        THEN "deleted"
                        ELSE IF marks = {} THEN "modified"
                        ELSE ModeOf(input[CHOOSE k \in marks : \A m \in marks : m <= k])

\* A parse of a section with a new file mode line and then a deleted file
\* mode line, both paths kept.
C11_Witness ==
    /\ Parsed
    /\ \E f \in 1..Len(files) :
        LET marks == ModeLines(TextLinesOf(rawDiff), f)
        IN  /\ Cardinality(marks) = 2
            /\ \E k \in marks : ModeOf(TextLinesOf(rawDiff)[k]) = "added"
            /\ files[f].status = "deleted"
            /\ files[f].oldPath # NullPath

\* C12: of a returned file, status added implies a null oldPath and status
\* deleted a null newPath.
C12_StatusImpliesNullPath ==
    Parsed =>
        \A f \in 1..Len(files) :
            /\ files[f].status = "added" => files[f].oldPath = NullPath
            /\ files[f].status = "deleted" => files[f].newPath = NullPath

\* The text with every CR LF and every bare CR replaced by LF.
WithLineFeeds(text) == Join(TextLinesOf(text), "lf", 1)

HasCR(text) == \E k \in 1..Len(text) : text[k] = "\r"

\* C13: the result for a text is the result for the same text with every
\* CR LF and every bare CR replaced by LF, and no content of the result has a
\* CR in it.
C13_LineEndings ==
    Parsed =>
        /\ files = parseUnifiedDiff(WithLineFeeds(rawDiff)).files
        /\ \A t \in ParsedLines :
            ~HasCR(files[t[1]].hunks[t[2]].lines[t[3]].content)

\* A parse of a text with a CR LF and a bare CR that returns a hunk line.
C13_Witness ==
    /\ Parsed
    /\ \E k \in 1..(Len(rawDiff) - 1) : rawDiff[k] = "\r" /\ rawDiff[k + 1] = "\n"
    /\ \E k \in 1..(Len(rawDiff) - 1) : rawDiff[k] = "\r" /\ rawDiff[k + 1] # "\n"
    /\ ParsedLines # {}

IsBodyLine(line) ==
    \/ startsWith(line, <<"+">>) /\ ~startsWith(line, <<"+", "+", "+">>)
    \/ startsWith(line, <<"-">>) /\ ~startsWith(line, <<"-", "-", "-">>)
    \/ startsWith(line, <<" ">>)

IsHunkHeader(line) == HUNK_HEADER(line) # <<>>

Recognised(line) ==
    \/ IsFileHeader(line)
    \/ IsModeLine(line)
    \/ startsWith(line, <<"-">>)
    \/ startsWith(line, <<"+">>)
    \/ startsWith(line, <<" ">>)
    \/ startsWith(line, <<"\\">>)
    \/ IsHunkHeader(line)

\* The text of the recognised lines alone.
Recognisable(text) ==
    LET kept == SelectSeq(TextLinesOf(text), Recognised)
    IN  IF kept = <<>> THEN <<>> ELSE Join(kept, "lf", 1)

\* C14: for every text the call has a result (before the call: the list it
\* is about to return; after it: the list returned), a list of files; lines
\* that are not recognised make no difference to it, and without a
\* diff --git header line it is empty.
C14_NeverFails ==
    LET result == IF Parsed THEN files ELSE parseUnifiedDiff(rawDiff).files
    IN  /\ Len(result) <= Len(TextLinesOf(rawDiff))
        /\ result = parseUnifiedDiff(Recognisable(rawDiff)).files
        /\ HeaderPositions(TextLinesOf(rawDiff)) = {} => result = <<>>

\* A parse of a text without a diff --git header that has a --- line, a hunk
\* header, a + line and a line that is not recognised.
C14_Witness ==
    /\ Parsed
    /\ LET input == TextLinesOf(rawDiff)
       IN  /\ HeaderPositions(input) = {}
           /\ \E k \in 1..Len(input) : startsWith(input[k], <<"-", "-", "-", " ">>)
           /\ \E k \in 1..Len(input) : IsHunkHeader(input[k])
           /\ \E k \in 1..Len(input) : IsBodyLine(input[k])
           /\ \E k \in 1..Len(input) : ~Recognised(input[k])

\* The positions of the body lines of the h-th hunk of the f-th file section:
\* the +, - and space lines of the section after its h-th hunk header and
\* before its next one.
HunkBody(input, f, h) ==
    LET opens == {k \in SectionOf(input, f) : IsHunkHeader(input[k])}
        start == CHOOSE k \in opens : Cardinality({j \in opens : j <= k}) = h
    IN  {k \in SectionOf(input, f) :
            /\ k > start
            /\ \A j \in opens : j > start => k < j
            /\ IsBodyLine(input[k])}

\* C15: the result has one file per diff --git header line, in input order;
\* a file has one hunk per hunk header of its section, and a hunk has one
\* line per body line that follows its header in the section, so a body line
\* between a diff --git header and the first hunk header after it is in no
\* hunk.
C15_Sections ==
    Parsed =>
        LET input == TextLinesOf(rawDiff)
        IN  /\ Len(files) = Cardinality(HeaderPositions(input))
            /\ \A f \in 1..Len(files) :
                /\ Len(files[f].hunks) =
                        Cardinality({k \in SectionOf(input, f) : IsHunkHeader(input[k])})
                /\ \A h \in 1..Len(files[f].hunks) :
                    /\ Len(files[f].hunks[h].lines) = Cardinality(HunkBody(input, f, h))
                    /\ \A i \in 1..Len(files[f].hunks[h].lines) :
                        \E k \in HunkBody(input, f, h) :
                            /\ Cardinality({j \in HunkBody(input, f, h) : j <= k}) = i
                            /\ files[f].hunks[h].lines[i].content = slice(input[k], 1)

\* A parse of two file sections, the first with a hunk, the second with a
\* body line and no hunk header.
C15_Witness ==
    /\ Parsed
    /\ Len(files) = 2
    /\ Len(files[1].hunks) = 1
    /\ Len(files[2].hunks) = 0
    /\ LET input == TextLinesOf(rawDiff)
       IN  \E k \in SectionOf(input, 2) : IsBodyLine(input[k])

\* The length of the longest common prefix of two texts.
CommonPrefix(a, b) ==
    LET common == {k \in 0..Min(Len(a), Len(b)) : SubSeq(a, 1, k) = SubSeq(b, 1, k)}
    IN  CHOOSE k \in common : \A m \in common : m <= k

\* The last k characters of a text.
Last(text, k) == SubSeq(text, Len(text) - k + 1, Len(text))

\* The length of the longest common suffix of two texts, of at most `most`.
CommonSuffix(a, b, most) ==
    LET common == {k \in 0..most : Last(a, k) = Last(b, k)}
    IN  CHOOSE k \in common : \A m \in common : m <= k

\* C16: old.before and next.before are the longest common prefix, of length
\* p; old.after and next.after are the longest common suffix of length at most
\* min(|oldText|, |newText|) - p; changed is what is between the two in each
\* text; for two empty texts every field is empty.
C16_PrefixSuffix ==
    inlineDiff # <<>> =>
        LET d == inlineDiff[1]
            p == CommonPrefix(oldText, newText)
            q == CommonSuffix(oldText, newText, Min(Len(oldText), Len(newText)) - p)
        IN  /\ d.old.before = SubSeq(oldText, 1, p)
            /\ d.next.before = SubSeq(newText, 1, p)
            /\ d.old.after = Last(oldText, q)
            /\ d.next.after = Last(newText, q)
            /\ d.old.changed = SubSeq(oldText, p + 1, Len(oldText) - q)
            /\ d.next.changed = SubSeq(newText, p + 1, Len(newText) - q)
            /\ (oldText = <<>> /\ newText = <<>>) =>
                    d = [old  |-> [before |-> <<>>, changed |-> <<>>, after |-> <<>>],
                         next |-> [before |-> <<>>, changed |-> <<>>, after |-> <<>>]]

\* A call whose texts have a common prefix and a common suffix that would
\* overlap: the suffix is cut short.
C16_Witness ==
    /\ inlineDiff # <<>>
    /\ LET p == CommonPrefix(oldText, newText)
           least == Min(Len(oldText), Len(newText))
       IN  /\ p >= 1
           /\ p < least
           /\ CommonSuffix(oldText, newText, least) > least - p
           /\ Len(inlineDiff[1].old.after) = least - p

\* The anchor of an added or removed connector is null or on no row.
AnchorMissing(meta) ==
    \/ /\ meta.type = "added"
       /\ \/ meta.anchorOldLine = Null
          \/ \A k \in 1..Len(rows) :
                rows[k].left.kind = "spacer" \/ rows[k].left.line.oldLineNumber # meta.anchorOldLine
    \/ /\ meta.type = "removed"
       /\ \/ meta.anchorNewLine = Null
          \/ \A k \in 1..Len(rows) :
                rows[k].right.kind = "spacer" \/ rows[k].right.line.newLineNumber # meta.anchorNewLine

\* Meta with its anchor moved to line a.
Reanchored(meta, a) ==
    IF meta.type = "added" THEN [meta EXCEPT !.anchorOldLine = a]
    ELSE IF meta.type = "removed" THEN [meta EXCEPT !.anchorNewLine = a]
    ELSE meta

\* The anchor side of a connector is at the default: y from -2 to +2.
AtDefault(meta, c) ==
    IF meta.type = "added"
    THEN c.fromTop.y = -2 /\ c.fromBottom.y = 2
    ELSE c.toTop.y = -2 /\ c.toBottom.y = 2

\* C17: once the layout is measured there is exactly one connector per
\* ConnectorMeta, in order; an added or removed connector whose anchor is null
\* is there too, its anchor side at y -2 to +2; and the same connector with
\* an anchor line that is on no row would be projected alike, not dropped.
C17_OnePerMeta ==
    (rendered /\ layoutX.fullToX # 0) =>
        /\ Len(connectors) = Len(connectorMeta)
        /\ \A k \in 1..Len(connectorMeta) :
            /\ connectors[k].id = k - 1
            /\ AnchorMissing(connectorMeta[k]) => AtDefault(connectorMeta[k], connectors[k])
            /\ \A a \in 1..(Len(rows) + 2) :
                  LET meta == Reanchored(connectorMeta[k], a)
                      one == ProjectConnector(rows, meta, k - 1,
                                              computeOffsets(rows, scrollTop), layoutX)
                  IN  AnchorMissing(meta) => Len(one) = 1 /\ AtDefault(meta, one[1])

\* A measured layout with an added connector whose anchor is null, scrolled,
\* and a line number that is on no row.
C17_Witness ==
    /\ rendered
    /\ layoutX.fullToX # 0
    /\ scrollTop > 0
    /\ \E k \in 1..Len(connectorMeta) :
          /\ connectorMeta[k].type = "added"
          /\ connectorMeta[k].anchorOldLine = Null
          /\ \E a \in 1..(Len(rows) + 2) : AnchorMissing(Reanchored(connectorMeta[k], a))

\* C18: in a render whose layoutX.fullToX is 0 the connector list is empty;
\* the measurement that makes fullToX other than 0 brings back a connector for
\* every ConnectorMeta, at the measured x coordinates.
C18_UnmeasuredIsEmpty ==
    [][/\ layoutX.fullToX = 0 => connectors = <<>>
       /\ layoutX'.fullToX = 0 => connectors' = <<>>
       /\ (layoutX.fullToX = 0 /\ layoutX'.fullToX # 0) =>
             /\ Len(connectors') = Len(connectorMeta')
             /\ \A k \in 1..Len(connectors') :
                   /\ connectors'[k].fromTop.x = layoutX'.fullFromX
                   /\ connectors'[k].toTop.x = layoutX'.fullToX]_vars

\* A file with two connectors, measured: both are projected.
C18_Witness ==
    /\ rendered
    /\ layoutX.fullToX # 0
    /\ Len(connectorMeta) = 2
    /\ Len(connectors) = 2

\* The 1-based index of the last row with that id.
RowOf(rowId) == RowIndexOf(rows, rowId) + 1

\* C19: at every render after a scroll event or a measurement, the connector
\* list is the projection of the current state: the y of each connector's ends
\* on the side of its rows is where the pane, translated by the offset
\* computed from the current scrollTop, shows those rows, and every x is the
\* one last measured.
C19_FollowsScrollAndResize ==
    (rendered /\ layoutX.fullToX # 0) =>
        /\ connectors = Projection
        /\ Len(connectors) = Len(connectorMeta)
        /\ \A k \in 1..Len(connectorMeta) :
              LET meta == connectorMeta[k]
                  c == connectors[k]
              IN  /\ meta.type \in {"change", "removed"} =>
                        /\ c.fromTop.y = LeftY(rows, RowOf(meta.startRowId), scrollTop) + 1
                        /\ c.fromBottom.y =
                               LeftY(rows, RowOf(meta.endRowId), scrollTop) + ROW_HEIGHT - 1
                  /\ meta.type \in {"change", "added"} =>
                        /\ c.toTop.y = RightY(rows, RowOf(meta.startRowId), scrollTop) + 1
                        /\ c.toBottom.y =
                               RightY(rows, RowOf(meta.endRowId), scrollTop) + ROW_HEIGHT - 1
                  /\ c.fromTop.x = layoutX.fullFromX
                  /\ c.fromBottom.x = layoutX.fullFromX
                  /\ c.toTop.x = layoutX.fullToX
                  /\ c.toBottom.x = layoutX.fullToX
                  /\ c.curveStartX = layoutX.curveStartX
                  /\ c.curveEndX = layoutX.curveEndX

\* Connectors shown in the narrow layout with the container in the middle of a
\* row below the first.
C19_Witness ==
    /\ rendered
    /\ layoutX.fullToX = 400
    /\ scrollTop > ROW_HEIGHT
    /\ scrollTop % ROW_HEIGHT # 0
    /\ Len(connectors) > 0

\* A step that handles the scroll event of a pane.
Handles(pane) == pane \in pendingScroll /\ pane \notin pendingScroll'

\* C20: with the listeners attached, handling a scroll event of a pane leaves
\* that pane where it is and moves the other pane to the same scrollTop when
\* the two are more than maxDelta apart, and leaves the other pane where it is
\* when they are maxDelta apart or closer; maxDelta is 2 when no option is
\* given.
C20_SyncOnScroll ==
    [][\A pane \in Panes :
          (attached /\ Handles(pane)) =>
              /\ MaxDeltaOf(Undefined) = 2
              /\ ScrollTopOf(pane)' = ScrollTopOf(pane)
              /\ IF Abs(ScrollTopOf(Other(pane)) - ScrollTopOf(pane)) > maxDelta
                 THEN ScrollTopOf(Other(pane))' = ScrollTopOf(pane)
                 ELSE ScrollTopOf(Other(pane))' = ScrollTopOf(Other(pane))]_vars

\* With the default maxDelta the right pane has been moved to the left pane,
\* whose event is handled, and its own event waits.
C20_Witness ==
    /\ attached
    /\ maxDelta = DefaultMaxDelta
    /\ leftScrollTop >= 3
    /\ rightScrollTop = leftScrollTop
    /\ pendingScroll = {"right"}

\* The step is a call of moveFile.
IsMove == lastCall' # <<>> /\ lastCall'.op = "moveFile"

SourceOf(target) == IF target = "staged" THEN "unstaged" ELSE "staged"

\* The files of a list, as a set.
Members(list) == {list[k] : k \in 1..Len(list)}

\* Every listener was called exactly once, with a snapshot of the state.
NotifiedOnce(calls, ls, state) ==
    /\ Len(calls) = Len(ls)
    /\ \A k \in 1..Len(ls) : ls[k] \in {calls[j][1] : j \in 1..Len(calls)}
    /\ \A j \in 1..Len(calls) : calls[j][2] = state

\* C21 as stated: a moveFile that finds the path takes the first matching file
\* out of the opposite group and appends it to the target group, and calls
\* every listener once with the new state; from any state, moving a file of
\* the unstaged group to staged and back leaves the members of both groups as
\* they were.
C21_MoveAppends ==
    /\ [][IsMove =>
            LET target == lastCall'.target
                source == StoreState[SourceOf(target)]
                index == findIndex(source, lastCall'.filePath)
            IN  index # -1 =>
                    /\ StoreState'[SourceOf(target)] = splice(source, index)
                    /\ StoreState'[target] = Append(StoreState[target], source[index + 1])
                    /\ NotifiedOnce(notified', listeners, StoreState')]_vars
    /\ [](\A filePath \in StorePaths :
            findIndex(unstaged, filePath) # -1 =>
                LET there == moveFileResult(StoreState, filePath, "staged").state
                    back == moveFileResult(there, filePath, "unstaged").state
                IN  /\ Members(back.staged) = Members(staged)
                    /\ Members(back.unstaged) = Members(unstaged))

\* C30: a call of moveFile leaves the number of files in the two groups
\* together as it was; one whose path is on no file of the source group leaves
\* both groups as they were and calls no listener.
C30_NoFileLost ==
    [][IsMove =>
          /\ Len(staged') + Len(unstaged') = Len(staged) + Len(unstaged)
          /\ findIndex(StoreState[SourceOf(lastCall'.target)], lastCall'.filePath) = -1 =>
                /\ staged' = staged
                /\ unstaged' = unstaged
                /\ notified' = <<>>]_vars

\* The rows before row i (0-based) with a real cell on the left / right.
RealLeftBefore(i) == {j \in 1..i : rows[j].left.kind # "spacer"}

RealRightBefore(i) == {j \in 1..i : rows[j].right.kind # "spacer"}

ConnectorRows == {k \in 1..Len(rows) : rows[k].left.kind # "context"}

\* The raw connector made by row k, a member of ConnectorRows: the rows and the
\* raw connectors were pushed together.
RawConnectorOf(k) == RawConnectors[Cardinality({j \in ConnectorRows : j <= k})]

\* The line number on the new (old) side of the last row before row k that has
\* one, or null.
LastNewLineBefore(k) ==
    LET before == {j \in 1..(k - 1) : rows[j].right.kind # "spacer"}
    IN  IF before = {} THEN Null
        ELSE rows[CHOOSE j \in before : \A i \in before : i <= j].right.line.newLineNumber

LastOldLineBefore(k) ==
    LET before == {j \in 1..(k - 1) : rows[j].left.kind # "spacer"}
    IN  IF before = {} THEN Null
        ELSE rows[CHOOSE j \in before : \A i \in before : i <= j].left.line.oldLineNumber

\* C23: the connector of a removed row with a spacer beside it is anchored to
\* the new-side line number of the last row before it that has a new-side
\* line, or to null when there is none; the connector of an added row likewise
\* to the old-side line number of the last row before it that has an old-side
\* line.
C23_Anchors ==
    (rendered /\ HasHunks) =>
        /\ Cardinality(ConnectorRows) = Len(RawConnectors)
        /\ \A k \in ConnectorRows :
              /\ rows[k].right.kind = "spacer" =>
                    /\ RawConnectorOf(k).type = "removed"
                    /\ RawConnectorOf(k).anchorNewLine = LastNewLineBefore(k)
              /\ rows[k].left.kind = "spacer" =>
                    /\ RawConnectorOf(k).type = "added"
                    /\ RawConnectorOf(k).anchorOldLine = LastOldLineBefore(k)

\* The rows (1-based) in the range of a connector of the result.
RangeOf(connector) == RowOf(connector.startRowId)..RowOf(connector.endRowId)

\* The kind of connector a row calls for, "none" for a context row.
KindFor(row) ==
    IF row.left.kind = "spacer" THEN "added"
    ELSE IF row.right.kind = "spacer" THEN "removed"
    ELSE IF row.left.kind = "change" THEN "change"
    ELSE "none"

\* C25: the connectors of the result are in ascending row order, each from a
\* row to the same or a later row; every change row and every row with a
\* spacer is in the range of exactly one connector, of the kind the row calls
\* for; no context row is in the range of a connector.
C25_Partition ==
    (rendered /\ HasHunks) =>
        /\ \A c \in 1..Len(connectorMeta) :
              /\ RowOf(connectorMeta[c].startRowId) >= 1
              /\ RowOf(connectorMeta[c].startRowId) <= RowOf(connectorMeta[c].endRowId)
        /\ \A c \in 1..(Len(connectorMeta) - 1) :
              RowOf(connectorMeta[c].endRowId) < RowOf(connectorMeta[c + 1].startRowId)
        /\ \A k \in 1..Len(rows) :
              LET over == {c \in 1..Len(connectorMeta) : k \in RangeOf(connectorMeta[c])}
              IN  IF KindFor(rows[k]) = "none" THEN over = {}
                  ELSE /\ Cardinality(over) = 1
                       /\ \A c \in over : connectorMeta[c].type = KindFor(rows[k])

\* A result with a connector over two rows next to a connector of another kind
\* and a context row.
C25_Witness ==
    /\ rendered
    /\ \E c \in 1..Len(connectorMeta) :
          RowOf(connectorMeta[c].startRowId) < RowOf(connectorMeta[c].endRowId)
    /\ Len(connectorMeta) >= 2
    /\ \E k \in 1..Len(rows) : KindFor(rows[k]) = "none"

\* C27: the row ids of the result are pairwise distinct, and the start and the
\* end of every connector resolve to a row with that id, change connectors and
\* connectors of one row to the row that made them.
C27_DistinctRowIds ==
    (rendered /\ HasHunks) =>
        /\ \A j \in 1..Len(rows) : \A k \in 1..Len(rows) :
              rows[j].rowId = rows[k].rowId => j = k
        /\ \A c \in 1..Len(connectorMeta) :
              /\ RowOf(connectorMeta[c].startRowId) \in 1..Len(rows)
              /\ RowOf(connectorMeta[c].endRowId) \in 1..Len(rows)
              /\ KindFor(rows[RowOf(connectorMeta[c].startRowId)]) = connectorMeta[c].type
              /\ KindFor(rows[RowOf(connectorMeta[c].endRowId)]) = connectorMeta[c].type

\* Two hunks with rows of the same kind at the same place in each, and gap
\* rows between them.
C27_Witness ==
    /\ rendered
    /\ Len(file.hunks) >= 2
    /\ \E j \in 1..Len(rows) : \E k \in 1..Len(rows) :
          /\ rows[j].rowId[1] = "removed"
          /\ rows[k].rowId[1] = "removed"
          /\ rows[j].rowId[2] # rows[k].rowId[2]
          /\ rows[j].rowId[3] = rows[k].rowId[3]
    /\ \E k \in 1..Len(rows) : rows[k].rowId[1] = "context-full"

\* C26: a line read in a file section that already has a hunk, and that does
\* not open the next section, leaves the oldPath and the newPath of the
\* section's file as they were.
C26_PathsFrozen ==
    [][(/\ currentFile # 0
        /\ currentFile' = currentFile
        /\ Len(files[currentFile].hunks) > 0) =>
            /\ files'[currentFile].oldPath = files[currentFile].oldPath
            /\ files'[currentFile].newPath = files[currentFile].newPath]_vars

\* C28: the three parts of each side, put together again, are the text that
\* side was computed from; when the two texts are equal both changed parts are
\* empty.
C28_Reconstructs ==
    inlineDiff # <<>> =>
        LET d == inlineDiff[1]
        IN  /\ d.old.before \o d.old.changed \o d.old.after = oldText
            /\ d.next.before \o d.next.changed \o d.next.after = newText
            /\ oldText = newText => d.old.changed = <<>> /\ d.next.changed = <<>>

\* Two texts of different lengths whose parts are all non-empty but the changed
\* part of the shorter one.
C28_Witness ==
    /\ inlineDiff # <<>>
    /\ Len(oldText) < Len(newText)
    /\ inlineDiff[1].old.before # <<>>
    /\ inlineDiff[1].old.changed = <<>>
    /\ inlineDiff[1].old.after # <<>>
    /\ inlineDiff[1].next.changed # <<>>

\* C29: with the listeners attached, a handler that writes leaves the two
\* panes at the same scrollTop, and the handler of the other pane, run on the
\* panes as the first one left them, writes nothing; so the event that a write
\* queues on the target is handled without a write, and whatever a handler
\* does, the panes are then at most maxDelta apart.
C29_NoPingPong ==
    /\ [](attached =>
            \A pane \in Panes :
                LET sourceTop == ScrollTopOf(pane)
                    targetTop == ScrollTopOf(Other(pane))
                    written == sync(isSyncing, maxDelta, sourceTop, targetTop)
                IN  /\ maxDelta >= 0
                    /\ Abs(written - sourceTop) <= maxDelta
                    /\ sync(isSyncing, maxDelta, written, sourceTop) = sourceTop)
    /\ [][\A pane \in Panes :
            (attached /\ Handles(pane)) =>
                /\ Abs(leftScrollTop' - rightScrollTop') <= maxDelta
                /\ ScrollTopOf(Other(pane))' # ScrollTopOf(Other(pane)) =>
                      /\ leftScrollTop' = rightScrollTop'
                      /\ pendingScroll' = (pendingScroll \ {pane}) \cup {Other(pane)}
                /\ (pendingScroll = {pane} /\ leftScrollTop = rightScrollTop) =>
                      /\ pendingScroll' = {}
                      /\ leftScrollTop' = leftScrollTop
                      /\ rightScrollTop' = rightScrollTop]_vars

\* With maxDelta 0 the right pane's handler has moved the left pane, whose own
\* event now waits.
C29_Witness ==
    /\ attached
    /\ maxDelta = 0
    /\ rightScrollTop > 0
    /\ leftScrollTop = rightScrollTop
    /\ pendingScroll = {"left"}

====
